---- MODULE Spec2Model ----
(***************************************************************************)
(* The tool-augmented streaming inference loop of ghostpad2                *)
(* (services/chat_service.py, services/tool_service.py).                   *)
(*                                                                         *)
(* One run of inference_loop is modelled as the async generator it is:     *)
(* every action is the code executed between two suspension points of the  *)
(* generator (a yield to the consumer, or an await on the transport or on  *)
(* a handler).  Text is a sequence of tokens, concatenation is \o.         *)
(***************************************************************************)
EXTENDS Naturals, Integers, Sequences, FiniteSets, TLC

(* ---------------------------- bounds ----------------------------------- *)
MaxRequests == 2       \* completion requests per run
MaxContentDeltas == 1  \* content deltas the model streams in one run
MaxToolDeltas == 1     \* tool-call / finish deltas of one completion stream

(* ---------------------------- text ------------------------------------- *)
None == <<"None">>     \* a content of None
NoName == "None"       \* a tool_call_name of None
UsageInstruction == "Use tool calls only when there is a good reason."
StatusClose == "</STATUS_DASHBOARD>"
StatusError == "(Status error)"
Separator == "---"
ToolCallsMade == "Tool Call(s) Made:"
GeneratorToolCompleted == "Generator tool completed"
UnknownFunction == "Unknown function: "
ToolPromptHeader == "You have access to the following tool(s):"
StatusOpen == "<STATUS_DASHBOARD>"
NoStatusSentinel == "(No status reported)"

Range(s) == {s[i] : i \in DOMAIN s}
Last(s) == s[Len(s)]
IsPrefix(s, t) == Len(s) <= Len(t) /\ SubSeq(t, 1, Len(s)) = s

\* replace_message_placeholders: {{user}} / {{char}} become the stored names.
replace_message_placeholders(content) ==
  [i \in DOMAIN content |->
     IF content[i] = "{{user}}" THEN "User"
     ELSE IF content[i] = "{{char}}" THEN "Assistant"
     ELSE content[i]]

(* ---------------------------- registry --------------------------------- *)
\* Registry entries as load_tools builds them.  function: "none" (no
\* callable), "plain" (returns a value) or "gen" (returns a chunk sequence).
ToolOrder == <<"dice.roll_dice", "thinking.think", "guidance.check_guidance",
               "clothing.outfit", "narrate.narrate", "memory.recall">>
ToolIds == Range(ToolOrder)
ToolDef ==
  [t \in ToolIds |->
     CASE t = "dice.roll_dice" ->
            [name |-> "roll_dice", enabled |-> TRUE, function |-> "plain",
             auto_tool |-> FALSE, one_time |-> TRUE, condition |-> FALSE,
             report_status |-> FALSE, cleanup_function |-> TRUE,
             status_line |-> ""]
       [] t = "thinking.think" ->
            [name |-> "think", enabled |-> TRUE, function |-> "gen",
             auto_tool |-> FALSE, one_time |-> FALSE, condition |-> TRUE,
             report_status |-> TRUE, cleanup_function |-> FALSE,
             status_line |-> "thinking: on"]
       [] t = "guidance.check_guidance" ->
            [name |-> "check_guidance", enabled |-> TRUE, function |-> "none",
             auto_tool |-> FALSE, one_time |-> FALSE, condition |-> FALSE,
             report_status |-> TRUE, cleanup_function |-> TRUE,
             status_line |-> "guidance: be brief"]
       [] t = "clothing.outfit" ->
            [name |-> "outfit", enabled |-> TRUE, function |-> "plain",
             auto_tool |-> TRUE, one_time |-> FALSE, condition |-> FALSE,
             report_status |-> FALSE, cleanup_function |-> FALSE,
             status_line |-> ""]
       [] t = "narrate.narrate" ->
            [name |-> "narrate", enabled |-> FALSE, function |-> "gen",
             auto_tool |-> FALSE, one_time |-> TRUE, condition |-> FALSE,
             report_status |-> FALSE, cleanup_function |-> TRUE,
             status_line |-> ""]
       [] t = "memory.recall" ->
            [name |-> "recall", enabled |-> TRUE, function |-> "plain",
             auto_tool |-> FALSE, one_time |-> FALSE, condition |-> FALSE,
             report_status |-> FALSE, cleanup_function |-> FALSE,
             status_line |-> ""]]

\* Function names the model may put in a tool-call delta.
\* narrate is registered but disabled, so it matches no enabled tool.
FunctionNames == {"roll_dice", "think", "check_guidance", "narrate"}
DeltaNames == FunctionNames
\* The k-th content delta of a run carries the k-th token: the loop never
\* looks into a content text, so distinct texts are all that ordering needs.
ContentTokens == <<"a", "b", "c", "d", "e", "f">>
ContentDelta(k) == <<ContentTokens[k]>>
FinishReasons == {"tool_calls", "stop"}
\* What a chunk-sequence handler may yield, and what a plain handler returns.
\* The chunk sequences a chunk-sequence handler may produce (thinking.py
\* yields system chunks only; currency.py and combat.py mix kinds).
Chunk(kind, text) == [kind |-> kind, text |-> text]
HandlerScripts ==
  {<<Chunk("system", <<"{{char}}">>), Chunk("system", <<"thinks">>)>>,
   <<Chunk("assistant", <<"{{char}}", "nods">>), Chunk("context", <<"hp 3">>)>>}
\* Per-response budgets a caller passes (api/config.py: TOOLS_LIMIT).
ToolsLimits == {1, 2}
DefaultToolsLimit == 3
NoneValue == [type |-> "NoneType", text |-> <<>>]
PlainValues == {[type |-> "int", text |-> <<"4">>],
                [type |-> "str", text |-> <<"4">>]}
Str(text) == [type |-> "str", text |-> text]

(* ---------------------------- argument text and JSON ------------------- *)
\* Argument text is a sequence of lexemes; a fragment is a run of them.
Quote == "\""
Digits == {"1", "6"}
SidesObject == <<"{", Quote, "sides", Quote, ":", "6", "}">>
OtherObject == <<"{", Quote, "sides", Quote, ":", "1", "}">>
NestedObject ==
  <<"{", Quote, "sides", Quote, ":", "{", Quote, "x", Quote, ":", "1", "}", "}">>
CloseBraceInString == <<"{", Quote, "sides", Quote, ":", Quote, "}", Quote, "}">>
OpenBraceInString == <<"{", Quote, "sides", Quote, ":", Quote, "{", Quote, "}">>
\* The argument texts a response may carry: nothing, objects, an object
\* delivered twice or followed by another, a cut-off object, other values.
ArgBuffers ==
  {<<>>, <<"{", "}">>, SidesObject, NestedObject, CloseBraceInString,
   OpenBraceInString, SidesObject \o SidesObject, SidesObject \o OtherObject,
   OpenBraceInString \o OpenBraceInString,
   <<"{", Quote, "sides", Quote, ":">>, <<"[", "1", "]">>, <<"6">>,
   <<Quote, "x", Quote>>}
\* The argument text explored in the deep runs.
MainBuffers == {SidesObject}

\* json values: kind and items (members as <<key, value>>, elements, lexemes).
JsonValue(kind, items) == [kind |-> kind, items |-> items]
EmptyObject == JsonValue("object", <<>>)
JSONDecodeError == JsonValue("JSONDecodeError", <<>>)
Parsed(value, rest) == [ok |-> TRUE, value |-> value, rest |-> rest]
NotParsed == [ok |-> FALSE, value |-> JSONDecodeError, rest |-> <<>>]

\* A string: from a quote to the next quote.
ParseString(s) ==
  IF s = <<>> \/ s[1] # Quote THEN NotParsed
  ELSE LET closing == {j \in 2..Len(s) : s[j] = Quote}
       IN IF closing = {} THEN NotParsed
          ELSE LET j == CHOOSE c \in closing : \A d \in closing : c <= d
               IN Parsed(JsonValue("string", SubSeq(s, 2, j - 1)),
                         SubSeq(s, j + 1, Len(s)))

RECURSIVE ParseValue(_)
RECURSIVE ParseMembers(_, _)
RECURSIVE ParseElements(_, _)
ParseValue(s) ==
  IF s = <<>> THEN NotParsed
  ELSE IF s[1] = "{"
  THEN IF Len(s) >= 2 /\ s[2] = "}"
       THEN Parsed(EmptyObject, SubSeq(s, 3, Len(s)))
       ELSE ParseMembers(Tail(s), <<>>)
  ELSE IF s[1] = "["
  THEN IF Len(s) >= 2 /\ s[2] = "]"
       THEN Parsed(JsonValue("array", <<>>), SubSeq(s, 3, Len(s)))
       ELSE ParseElements(Tail(s), <<>>)
  ELSE IF s[1] = Quote THEN ParseString(s)
  ELSE IF s[1] \in Digits THEN Parsed(JsonValue("number", <<s[1]>>), Tail(s))
  ELSE NotParsed

ParseMembers(s, acc) ==
  LET k == ParseString(s)
  IN IF ~k.ok \/ k.rest = <<>> \/ k.rest[1] # ":" THEN NotParsed
     ELSE LET v == ParseValue(Tail(k.rest))
              members == Append(acc, <<k.value.items, v.value>>)
          IN IF ~v.ok \/ v.rest = <<>> THEN NotParsed
             ELSE IF v.rest[1] = "," THEN ParseMembers(Tail(v.rest), members)
             ELSE IF v.rest[1] = "}"
             THEN Parsed(JsonValue("object", members), Tail(v.rest))
             ELSE NotParsed

ParseElements(s, acc) ==
  LET v == ParseValue(s)
      elements == Append(acc, v.value)
  IN IF ~v.ok \/ v.rest = <<>> THEN NotParsed
     ELSE IF v.rest[1] = "," THEN ParseElements(Tail(v.rest), elements)
     ELSE IF v.rest[1] = "]"
     THEN Parsed(JsonValue("array", elements), Tail(v.rest))
     ELSE NotParsed

\* json.loads: one value and nothing after it.
json_loads(s) ==
  LET r == ParseValue(s)
  IN IF r.ok /\ r.rest = <<>> THEN r.value ELSE JSONDecodeError

\* brace_count after the first i lexemes, as the scan counts it.
BraceCount(s, i) ==
  Cardinality({j \in 1..i : s[j] = "{"}) - Cardinality({j \in 1..i : s[j] = "}"})

\* first_json_end: past the first "}" that brings the count to zero, else 0.
FirstJsonEnd(s) ==
  LET ends == {i \in 1..Len(s) : s[i] = "}" /\ BraceCount(s, i) = 0}
  IN IF ends = {} THEN 0 ELSE CHOOSE i \in ends : \A j \in ends : i <= j

_parse_tool_arguments(collected_args) ==
  IF collected_args = <<>> THEN EmptyObject
  ELSE LET first_json_end == FirstJsonEnd(collected_args)
           args == IF first_json_end > 0
                   THEN json_loads(SubSeq(collected_args, 1, first_json_end))
                   ELSE json_loads(collected_args)
       IN IF args.kind = "JSONDecodeError" THEN EmptyObject ELSE args

\* dict(args) raises unless args is a mapping or has nothing to iterate.
DictRaises(args) == args.kind # "object" /\ args.items # <<>>

VARIABLES
  registry,        \* ids present in tool_service.registry
  tools_limit,     \* inference_loop parameter
  pc,              \* where the generator is
  base_messages,   \* the history list the loop appends to
  tools_used,      \* inference_loop local
  final_content,   \* inference_loop local
  loop_flags,      \* inference_loop locals tool_call_detected, streaming_interrupted, collected_args
  stream,          \* locals of the running _process_streaming_response
  exec,            \* locals of the running _execute_tool_function
  request,         \* the last api_call_params handed to the transport
  numRequests,     \* completions.create calls so far
  events,          \* every event yielded to the consumer, in order
  handlerCalls,    \* per tool: primary handler invocations caused by tool calls
  autoRuns,        \* per tool: auto-behaviour invocations
  cleanupCalls,    \* per tool: cleanup hook invocations
  raised,          \* what raised inside the run: "none", "transport", "handler", "loop"
  escaped,         \* exception that left the generator towards the consumer
  abandoned,       \* the consumer stopped iterating while the generator was suspended
  contentDeltas,   \* content deltas streamed by the model so far
  pending,         \* argument text the current response has still to deliver
  iteration,       \* what the registry's callbacks did in the current iteration
  cleanupFailed,   \* tools whose cleanup hook raised
  consumed,        \* events get_streaming_generator has taken from inference_loop
  delivered,       \* events get_streaming_generator has yielded to its consumer
  peer,            \* locals of a second inference_loop running over the same registry
  db,              \* the database: messages committed, attachments of one conversation
  writers,         \* per writer task: where it is, and its locals
  kv,              \* the KV store: the value under each key used here
  enabledFlags,    \* per tool id: the "enabled" field of its registry entry
  togglers,        \* per toggling task: where it is, and its locals
  pushers,         \* per pushing task: where it is, and its locals
  connections,     \* websocket manager: client_id -> that connection's subscriptions
  subscriptions    \* websocket manager: topic -> set of client ids

\* The state of the services beside the inference loop.
serviceVars == <<db, writers, kv, enabledFlags, togglers, pushers, connections, subscriptions>>

loopVars == <<registry, tools_limit, pc, base_messages, tools_used, final_content,
              loop_flags, stream, exec, request, numRequests, events, handlerCalls,
              autoRuns, cleanupCalls, raised, escaped, abandoned, contentDeltas,
              pending, iteration, cleanupFailed, consumed, delivered, peer>>

vars == <<serviceVars, registry, tools_limit, pc, base_messages, tools_used, final_content,
          loop_flags, stream, exec, request, numRequests, events, handlerCalls,
          autoRuns, cleanupCalls, raised, escaped, abandoned, contentDeltas,
          pending, iteration, cleanupFailed, consumed, delivered, peer>>

(* ---------------------------- message attachments ---------------------- *)
MaxWrites == 2   \* messages each writer attaches to the conversation
\* The tasks that attach messages to the one conversation: the streaming
\* run persisting a system notice, and a request creating a user message.
Writers == {"system_complete", "create_user_message"}
IdleWriter == [pc |-> "idle", message_id |-> 0, max_order |-> 0, written |-> 0]
\* load_tools sets "enabled" to membership in the persisted list, so the
\* two agree when the tools are loaded.
Togglers == {"task1", "task2"}
Pushers == {"task1", "task2"}
IdlePusher == [pc |-> "idle", op |-> "none", value |-> <<>>, current |-> <<>>, returned |-> <<>>]
IdleToggler == [pc |-> "idle", tools |-> {}, enabled |-> FALSE, enabled_ids |-> {}, calls |-> 0]
ServicesInit ==
  /\ db = [messages |-> 0, attachments |-> <<>>]
  /\ writers = [w \in Writers |-> IdleWriter]
  /\ kv = [enabled_tools |-> {t \in ToolIds : ToolDef[t].enabled}, list |-> <<>>]
  /\ enabledFlags = [t \in ToolIds |-> ToolDef[t].enabled]
  /\ togglers = [k \in Togglers |-> IdleToggler]
  /\ pushers = [k \in Pushers |-> IdlePusher]
  /\ connections = <<>>
  /\ subscriptions = <<>>

MaxOf(S) == IF S = {} THEN 0 ELSE CHOOSE m \in S : \A n \in S : n <= m

\* session.add(message); await session.commit(); await session.refresh(message)
CommitMessage(w) ==
  /\ writers[w].pc = "idle" /\ writers[w].written < MaxWrites
  /\ db' = [db EXCEPT !.messages = @ + 1]
  /\ writers' = [writers EXCEPT ![w].pc = "message_committed",
                                 ![w].message_id = db.messages + 1]

\* select coalesce(max(sequence_order), 0) ...; return max_order + 1
_get_next_sequence_order(w) ==
  /\ writers[w].pc = "message_committed"
  /\ writers' = [writers EXCEPT
       ![w].pc = "order_read",
       ![w].max_order = MaxOf({db.attachments[i].sequence_order : i \in DOMAIN db.attachments})]
  /\ UNCHANGED db

\* session.add(MessageAttachment(..., sequence_order=...)); await session.commit()
CommitAttachment(w) ==
  /\ writers[w].pc = "order_read"
  /\ db' = [db EXCEPT !.attachments = Append(@,
       [message_id |-> writers[w].message_id,
        sequence_order |-> writers[w].max_order + 1])]
  /\ writers' = [writers EXCEPT ![w].pc = "idle", ![w].written = @ + 1]

\* The writers, interleaved at their awaits.
SequenceNext ==
  \/ \E w \in Writers : CommitMessage(w) /\ UNCHANGED <<loopVars, kv, enabledFlags, togglers, pushers, connections, subscriptions>>
  \/ \E w \in Writers : _get_next_sequence_order(w) /\ UNCHANGED <<loopVars, kv, enabledFlags, togglers, pushers, connections, subscriptions>>
  \/ \E w \in Writers : CommitAttachment(w) /\ UNCHANGED <<loopVars, kv, enabledFlags, togglers, pushers, connections, subscriptions>>

(* ---------------------------- toggling tools --------------------------- *)
MaxToggles == 1   \* toggle calls each task makes
\* The module (file) of a tool id, and the ids the toggles are tried on.
ToolModule(t) ==
  CASE t = "dice.roll_dice" -> "dice" [] t = "thinking.think" -> "thinking"
    [] t = "guidance.check_guidance" -> "guidance" [] t = "clothing.outfit" -> "clothing"
    [] t = "narrate.narrate" -> "narrate" [] t = "memory.recall" -> "memory"
ToggledIds == {"dice.roll_dice", "narrate.narrate"}

\* The start of a toggle call up to its first await: the registry entries
\* of tools get the new flag.  A call that finds nothing returns False.
BeginToggle(k, tools, enabled) ==
  /\ togglers[k].pc = "idle" /\ togglers[k].calls < MaxToggles
  /\ IF tools \cap registry = {}
     THEN /\ togglers' = [togglers EXCEPT ![k].calls = @ + 1]
          /\ UNCHANGED enabledFlags
     ELSE /\ enabledFlags' = [t \in ToolIds |->
                                IF t \in tools \cap registry THEN enabled ELSE enabledFlags[t]]
          /\ togglers' = [togglers EXCEPT ![k].pc = "get", ![k].tools = tools \cap registry,
                                          ![k].enabled = enabled, ![k].calls = @ + 1]
  /\ UNCHANGED kv

toggle_tool(k, tool_id, enabled) == BeginToggle(k, {tool_id}, enabled)

toggle_file_tools(k, module_name, enabled) ==
  BeginToggle(k, {t \in ToolIds : ToolModule(t) = module_name}, enabled)

\* enabled_ids = await kv_store.get("enabled_tools", []) or []
ToggleReadsPersisted(k) ==
  /\ togglers[k].pc = "get"
  /\ togglers' = [togglers EXCEPT ![k].pc = "set", ![k].enabled_ids = kv.enabled_tools]
  /\ UNCHANGED <<kv, enabledFlags>>

\* await kv_store.set("enabled_tools", sorted(enabled_set)); return True
ToggleWritesPersisted(k) ==
  /\ togglers[k].pc = "set"
  /\ kv' = [kv EXCEPT !.enabled_tools =
               IF togglers[k].enabled THEN togglers[k].enabled_ids \cup togglers[k].tools
               ELSE togglers[k].enabled_ids \ togglers[k].tools]
  /\ togglers' = [togglers EXCEPT ![k].pc = "idle"]
  /\ UNCHANGED enabledFlags

\* Toggle calls of two tasks, interleaved at their awaits.
ToggleNext ==
  \/ \E k \in Togglers, t \in ToggledIds, enabled \in BOOLEAN :
        toggle_tool(k, t, enabled) /\ UNCHANGED <<loopVars, db, writers, pushers, connections, subscriptions>>
  \/ \E k \in Togglers, t \in ToggledIds, enabled \in BOOLEAN :
        toggle_file_tools(k, ToolModule(t), enabled) /\ UNCHANGED <<loopVars, db, writers, pushers, connections, subscriptions>>
  \/ \E k \in Togglers : ToggleReadsPersisted(k) /\ UNCHANGED <<loopVars, db, writers, pushers, connections, subscriptions>>
  \/ \E k \in Togglers : ToggleWritesPersisted(k) /\ UNCHANGED <<loopVars, db, writers, pushers, connections, subscriptions>>

(* ---------------------------- messages --------------------------------- *)
Msg(role, content) == [role |-> role, content |-> content, tool_calls |-> <<>>]
CallMsg(name, arguments) ==
  [role |-> "assistant", content |-> None,
   tool_calls |-> <<[name |-> name, arguments |-> arguments]>>]
Event(type, content) == [type |-> type, content |-> content]

\* Histories a caller hands to inference_loop: a bare user turn, and the
\* non-streaming caller's list that already carries a prompt/status message.
BareHistory == <<Msg("user", <<"hi">>)>>
PromptedHistory ==
  <<Msg("system", <<ToolPromptHeader, UsageInstruction, NoStatusSentinel, Separator>>),
    Msg("user", <<"{{user}}">>)>>

RECURSIVE Join(_)
Join(parts) == IF parts = <<>> THEN <<>> ELSE Head(parts) \o Join(Tail(parts))

(* ---------------------------- tool_service ----------------------------- *)
get_enabled_tools ==
  SelectSeq(ToolOrder, LAMBDA t : t \in registry /\ ToolDef[t].enabled)

Names(tools) == [i \in DOMAIN tools |-> ToolDef[tools[i]].name]

\* Variant: a one_time tool stays listed after use.
build_tool_prompt_relisting(used, tools) ==
  LET listed(t) == ToolDef[t].function # "none" /\ ~ToolDef[t].auto_tool
  IN <<ToolPromptHeader>> \o Names(SelectSeq(tools, listed)) \o <<UsageInstruction>>

build_tool_prompt(used, tools) ==
  LET listed(t) == /\ ToolDef[t].function # "none"
                   /\ ~ToolDef[t].auto_tool
                   /\ ~(ToolDef[t].one_time /\ ToolDef[t].name \in Range(used))
  IN <<ToolPromptHeader>> \o Names(SelectSeq(tools, listed)) \o <<UsageInstruction>>

\* report[t] is what t's report_status does in this iteration:
\* "line" (a text), "empty" (a falsy value) or "raise".
ReportOutcomes == {"line", "empty", "raise"}
\* The outcomes explored in the deep runs.
MainReportOutcomes == {"line"}
Reporters == {t \in ToolIds : ToolDef[t].report_status}
StatusLines(tools, report) ==
  LET reports(t) == ToolDef[t].report_status /\ report[t] # "empty"
      line(t) == IF report[t] = "raise" THEN StatusError ELSE ToolDef[t].status_line
      reporting == SelectSeq(tools, reports)
  IN [i \in DOMAIN reporting |-> line(reporting[i])]

\* Variant: with no status line the section is the empty join of the lines.
run_auto_tools_and_status_blank(tools, report) ==
  LET status_lines == StatusLines(tools, report)
  IN IF status_lines # <<>>
     THEN <<Separator, StatusOpen>> \o status_lines \o <<StatusClose, Separator>>
     ELSE <<>>

run_auto_tools_and_status(tools, report) ==
  LET status_lines == StatusLines(tools, report)
  IN IF status_lines # <<>>
     THEN <<Separator, StatusOpen>> \o status_lines \o <<StatusClose, Separator>>
     ELSE <<NoStatusSentinel, Separator>>

\* The auto tools whose function run_auto_tools_and_status invokes.
AutoInvoked(tools) ==
  {t \in Range(tools) : ToolDef[t].function # "none" /\ ToolDef[t].auto_tool}

(* ---------------------------- chat_service helpers --------------------- *)
\* cond[t] is what t's condition predicate does in this iteration.
CondOutcomes == {"true", "false", "raise"}
\* The outcomes explored in the deep runs: a raise is skipped like a false.
MainCondOutcomes == {"true", "false"}
Conditional == {t \in ToolIds : ToolDef[t].condition}

\* Variant: the first condition that fails ends the evaluation.
_filter_available_tools_stopping(tools, used, cond) ==
  LET reached(t) == /\ ~ToolDef[t].auto_tool
                    /\ ToolDef[t].function # "none"
                    /\ ~(ToolDef[t].one_time /\ ToolDef[t].name \in Range(used))
      failed == {i \in DOMAIN tools : reached(tools[i]) /\ ToolDef[tools[i]].condition /\ cond[tools[i]] # "true"}
      before == IF failed = {} THEN tools
                ELSE SubSeq(tools, 1, (CHOOSE i \in failed : \A j \in failed : i <= j) - 1)
  IN Names(SelectSeq(before, reached))

_filter_available_tools(tools, used, cond) ==
  LET keep(t) == /\ ~ToolDef[t].auto_tool
                 /\ ToolDef[t].function # "none"
                 /\ ~(ToolDef[t].one_time /\ ToolDef[t].name \in Range(used))
                 /\ (ToolDef[t].condition => cond[t] = "true")
  IN Names(SelectSeq(tools, keep))

IsPromptOrStatus(m) ==
  /\ m.role = "system"
  /\ (ToolPromptHeader \in Range(m.content) \/ StatusOpen \in Range(m.content))

NumToolsUsed(used) == Len(SelectSeq(used, LAMBDA n : n # ""))

\* Variant: the tools_limit comparison is dropped.
_prepare_loop_iteration_unlimited(messages, used, limit, report, cond) ==
  LET enabled_tools == get_enabled_tools
      status_section == run_auto_tools_and_status(enabled_tools, report)
      kept == SelectSeq(messages, LAMBDA m : ~IsPromptOrStatus(m))
      with_status == <<Msg("system", status_section)>> \o kept
  IN [messages_for_api |->
        <<Msg("system", build_tool_prompt(used, enabled_tools))>> \o with_status,
      available_tools |-> _filter_available_tools(enabled_tools, used, cond)]

\* Variant: earlier prompt and status messages are kept in the list.
_prepare_loop_iteration_accumulating(messages, used, limit, report, cond) ==
  LET enabled_tools == get_enabled_tools
      num_tools_used == NumToolsUsed(used)
      status_section == run_auto_tools_and_status(enabled_tools, report)
      with_status == <<Msg("system", status_section)>> \o messages
  IN IF num_tools_used < limit
     THEN [messages_for_api |->
             <<Msg("system", build_tool_prompt(used, enabled_tools))>> \o with_status,
           available_tools |-> _filter_available_tools(enabled_tools, used, cond)]
     ELSE [messages_for_api |-> with_status, available_tools |-> <<>>]

_prepare_loop_iteration(messages, used, limit, report, cond) ==
  LET enabled_tools == get_enabled_tools
      num_tools_used == NumToolsUsed(used)
      status_section == run_auto_tools_and_status(enabled_tools, report)
      kept == SelectSeq(messages, LAMBDA m : ~IsPromptOrStatus(m))
      with_status == <<Msg("system", status_section)>> \o kept
  IN IF num_tools_used < limit
     THEN [messages_for_api |->
             <<Msg("system", build_tool_prompt(used, enabled_tools))>> \o with_status,
           available_tools |-> _filter_available_tools(enabled_tools, used, cond)]
     ELSE [messages_for_api |-> with_status, available_tools |-> <<>>]

_prepare_api_request(messages_for_api, available_tools) ==
  [messages |->
     [i \in DOMAIN messages_for_api |->
        IF messages_for_api[i].content # None /\ messages_for_api[i].content # <<>>
        THEN [messages_for_api[i] EXCEPT
                !.content = replace_message_placeholders(@)]
        ELSE messages_for_api[i]],
   tools |-> available_tools]

\* Variant: the replaced content is written into the stored message.
StoredAfterPrepareInPlace(messages) ==
  [i \in DOMAIN messages |->
     IF messages[i].content # None /\ messages[i].content # <<>>
     THEN [messages[i] EXCEPT !.content = replace_message_placeholders(@)]
     ELSE messages[i]]

\* The stored messages after _prepare_api_request: the messages handed to
\* it are the stored objects, and each one with content is copied
\* (message.copy()) before the copy's content is replaced.
StoredAfterPrepare(messages) == messages

_find_tool_by_name(tool_name) ==
  LET found == SelectSeq(ToolOrder, LAMBDA t :
                 t \in registry /\ ToolDef[t].enabled /\ ToolDef[t].name = tool_name)
  IN IF found = <<>> THEN <<>> ELSE <<Head(found)>>

_should_continue_loop(tool_call_detected) == tool_call_detected

\* hasattr(tool_result, "__aiter__") or hasattr(tool_result, "__iter__")
HasIter(value) == value.type \in {"str", "generator"}


(* ---------------------------- state ------------------------------------ *)
IdleStream ==
  [tool_call_detected |-> FALSE, tool_call_name |-> NoName, collected_args |-> <<>>,
   streaming_interrupted |-> FALSE, updated_final_content |-> <<>>, chunks |-> 0,
   tool_result |-> NoneValue, ended |-> "none"]
\* _execute_tool_function's locals; tool_result is unset until tool_fn returns.
Unset == [type |-> "unset", text |-> <<>>]
GeneratorObject == [type |-> "async_generator", text |-> <<>>]
IdleExec ==
  [tool |-> "", args |-> JsonValue("unset", <<>>), tool_result |-> Unset,
   system_chunks |-> <<>>,
   context_chunks |-> <<>>, streamed_accumulator |-> <<>>,
   updated_final_content |-> <<>>, script |-> <<>>]
IdleLoopFlags ==
  [tool_call_detected |-> FALSE, streaming_interrupted |-> FALSE,
   tool_call_name |-> NoName, collected_args |-> <<>>]

NoRequest == [messages |-> <<>>, tools |-> <<>>]
NoIteration == [report |-> <<>>, cond |-> <<>>]
\* The locals of an inference_loop that has just yielded start.
NewRun(messages) ==
  [pc |-> "prepare", base_messages |-> messages, tools_used |-> <<>>,
   request |-> NoRequest, numRequests |-> 0, iteration |-> NoIteration]

Init ==
  /\ \/ /\ registry = {}
        /\ tools_limit = DefaultToolsLimit
        /\ base_messages = BareHistory
     \/ /\ registry = ToolIds
        /\ tools_limit \in ToolsLimits
        /\ base_messages = PromptedHistory
  /\ pc = "created"
  /\ tools_used = <<>>
  /\ final_content = <<>>
  /\ loop_flags = IdleLoopFlags
  /\ stream = IdleStream
  /\ exec = IdleExec
  /\ request = NoRequest
  /\ numRequests = 0
  /\ events = <<>>
  /\ handlerCalls = [t \in ToolIds |-> 0]
  /\ autoRuns = [t \in ToolIds |-> 0]
  /\ cleanupCalls = [t \in ToolIds |-> 0]
  /\ raised = "none"
  /\ escaped = "none"
  /\ abandoned = FALSE
  /\ contentDeltas = 0
  /\ pending = <<>>
  /\ iteration = NoIteration
  /\ cleanupFailed = {}
  /\ consumed = 0
  /\ delivered = <<>>
  /\ peer = NewRun(base_messages)
  /\ ServicesInit

Running == ~abandoned /\ pc \in {"prepare", "streaming", "executing"}

(* ---------------------------- inference_loop: except / finally --------- *)
\* Variant: the exception ends the run without an error event.
OnExceptionSilent(kind) ==
  /\ events' = events
  /\ raised' = kind
  /\ pc' = "yielded_error"

\* Variant: the except clause sits inside the while loop, so the loop
\* goes on after the error event.
OnExceptionInsideLoop(kind) ==
  /\ events' = Append(events, Event("error", <<kind>>))
  /\ raised' = kind
  /\ pc' = "prepare"

\* except Exception as e: yield {"type": "error", ...}
OnException(kind) ==
  /\ events' = Append(events, Event("error", <<kind>>))
  /\ raised' = kind
  /\ pc' = "yielded_error"

\* hooks[t] is what t's cleanup_function does: "ok" or "raise".
Hooked == {t \in ToolIds : ToolDef[t].cleanup_function}
HookOutcomes == {"ok", "raise"}
QuietHooks == [t \in Hooked |-> "ok"]

\* Variant: one try around the whole loop, so the first hook that raises
\* ends the loop over the enabled tools.
FinalizationOneTry(hooks) ==
  LET enabled_tools == get_enabled_tools
      fails(t) == ToolDef[t].cleanup_function /\ hooks[t] = "raise"
      reached(i) == \A j \in 1..(i - 1) : ~fails(enabled_tools[j])
  IN /\ cleanupCalls' =
          [t \in ToolIds |->
             IF \E i \in DOMAIN enabled_tools :
                  /\ enabled_tools[i] = t
                  /\ ToolDef[t].cleanup_function
                  /\ reached(i)
             THEN cleanupCalls[t] + 1 ELSE cleanupCalls[t]]
     /\ pc' = "closed"
     /\ loop_flags' = IdleLoopFlags
     /\ stream' = IdleStream
     /\ exec' = IdleExec
     /\ request' = NoRequest
     /\ pending' = <<>>
     /\ iteration' = NoIteration
     /\ cleanupFailed' = cleanupFailed \cup
          {t \in Range(enabled_tools) : fails(t)}

\* finally: every enabled tool's cleanup_function, each in its own try.
Finalization(hooks) ==
  /\ cleanupCalls' =
       [t \in ToolIds |->
          IF t \in Range(get_enabled_tools) /\ ToolDef[t].cleanup_function
          THEN cleanupCalls[t] + 1 ELSE cleanupCalls[t]]
  /\ pc' = "closed"
  /\ loop_flags' = IdleLoopFlags
  /\ stream' = IdleStream
  /\ exec' = IdleExec
  /\ request' = NoRequest
  /\ pending' = <<>>
  /\ iteration' = NoIteration
  /\ cleanupFailed' = cleanupFailed \cup
       {t \in Range(get_enabled_tools) :
          ToolDef[t].cleanup_function /\ hooks[t] = "raise"}

(* ---------------------------- inference_loop: one iteration ------------ *)
\* First resumption: runs to `yield {"type": "start"}`.
Start ==
  /\ pc = "created" /\ ~abandoned
  /\ events' = Append(events, Event("start", <<>>))
  /\ pc' = "prepare"
  /\ UNCHANGED <<registry, serviceVars, consumed, delivered, peer, tools_limit, base_messages, tools_used, final_content,
                 loop_flags, stream, exec, request, numRequests, handlerCalls,
                 autoRuns, cleanupCalls, raised, escaped, abandoned,
                 contentDeltas, pending, iteration,
                 cleanupFailed>>

\* Top of the while loop up to the end of `await client...create(...)`.
PrepareAndRequest(report, cond, transport_ok, buffer) ==
  /\ Running /\ pc = "prepare"
  /\ LET it == _prepare_loop_iteration(base_messages, tools_used, tools_limit,
                                       report, cond)
     IN request' = _prepare_api_request(it.messages_for_api, it.available_tools)
  \* both counts stop at the bound
  /\ autoRuns' = [t \in ToolIds |->
                    IF t \in AutoInvoked(get_enabled_tools) /\ numRequests < MaxRequests
                    THEN autoRuns[t] + 1 ELSE autoRuns[t]]
  /\ numRequests' = IF numRequests < MaxRequests THEN numRequests + 1
                    ELSE numRequests
  /\ iteration' = [report |-> report, cond |-> cond]
  /\ pending' = IF transport_ok THEN buffer ELSE <<>>
  /\ IF transport_ok
     THEN /\ pc' = "streaming"
          /\ loop_flags' = IdleLoopFlags
          /\ stream' = [IdleStream EXCEPT !.updated_final_content = final_content]
          /\ UNCHANGED <<events, raised>>
     ELSE /\ OnException("transport")
          /\ UNCHANGED <<loop_flags, stream>>
  /\ exec' = IdleExec
  /\ base_messages' = StoredAfterPrepare(base_messages)
  /\ UNCHANGED <<registry, serviceVars, consumed, delivered, peer, tools_limit, tools_used, final_content,
                 handlerCalls, cleanupCalls, escaped, abandoned,
                 contentDeltas, cleanupFailed>>


(* ---------------------------- tool call completion --------------------- *)
\* _process_tool_call_completion's effect on the history.  collected_args is
\* the argument inference_loop passes: its own local of that name.
_process_tool_call_completion(messages, tool_call_name, collected_args, system_messages_accumulator, context_messages_accumulator) ==
  LET cleaned == SelectSeq(messages, LAMBDA m :
                   ~(m.role = "system" /\ m.content # <<>>
                     /\ Head(m.content) = ToolCallsMade))
      system_turn ==
        IF system_messages_accumulator # <<>>
        THEN <<Msg("system",
                   replace_message_placeholders(Join(system_messages_accumulator)))>>
        ELSE <<>>
      context_turn ==
        IF context_messages_accumulator # <<>>
        THEN <<Msg("tool",
                   replace_message_placeholders(Join(context_messages_accumulator)))>>
        ELSE <<>>
  IN cleaned \o <<CallMsg(tool_call_name, collected_args)>> \o system_turn
       \o context_turn

\* Variant: a name already in the list is not appended again.
TrackUsageOnce(used, tool_call_name) ==
  IF tool_call_name \in Range(used) THEN used ELSE Append(used, tool_call_name)

\* tools_used.append(tool_call_name or "")
TrackUsage(used, tool_call_name) ==
  Append(used, IF tool_call_name = NoName THEN "" ELSE tool_call_name)

\* The tool_call_complete event reaches inference_loop, which folds the call
\* into the history and goes round the loop again.
CompleteToolCall(st, ex, tool_result, system_acc, context_acc, content, yielded) ==
  /\ tools_used' = TrackUsage(tools_used, st.tool_call_name)
  /\ base_messages' =
       _process_tool_call_completion(base_messages, st.tool_call_name,
                                     loop_flags.collected_args, system_acc,
                                     context_acc)
  /\ loop_flags' = [loop_flags EXCEPT !.tool_call_detected = TRUE,
                                      !.streaming_interrupted = FALSE]
  /\ final_content' = content
  /\ events' = events \o yielded
  /\ stream' = [st EXCEPT !.tool_result = tool_result,
                          !.updated_final_content = content,
                          !.ended = "tool_call_complete"]
  /\ exec' = ex
  /\ pc' = IF _should_continue_loop(TRUE) THEN "prepare" ELSE "yielded_complete"
  /\ UNCHANGED raised

\* Variant: the failed call is still counted in tools_used.
FailToolCallTracked(st, ex, kind) ==
  /\ OnException(kind)
  /\ stream' = st
  /\ exec' = ex
  /\ tools_used' = TrackUsage(tools_used, st.tool_call_name)
  /\ UNCHANGED <<base_messages, loop_flags, final_content>>

\* An exception on the way: nothing of the call is recorded.
FailToolCall(st, ex, kind) ==
  /\ OnException(kind)
  /\ stream' = st
  /\ exec' = ex
  /\ UNCHANGED <<tools_used, base_messages, loop_flags, final_content>>

(* ---------------------------- _execute_tool_function ------------------- *)
RaiseOutcome == [type |-> "raise", text |-> <<>>]
HandlerOutcomes == PlainValues \cup {RaiseOutcome}

\* From the call of tool_fn to the first suspension point after it.
_execute_tool_function(t, args, st, outcome, script) ==
  IF ToolDef[t].function = "none" \/ DictRaises(args)
  THEN \* inspect.signature(None) raises TypeError, and so does dict(args)
       /\ FailToolCall(st, [IdleExec EXCEPT !.tool = t, !.args = args], "loop")
       /\ UNCHANGED handlerCalls
  ELSE /\ handlerCalls' = [handlerCalls EXCEPT ![t] = @ + 1]
       /\ IF ToolDef[t].function = "gen"
          THEN \* the call only creates the generator; its body runs in the loop
               /\ pc' = "executing"
               /\ stream' = st
               /\ exec' = [IdleExec EXCEPT !.tool = t, !.args = args,
                             !.script = script,
                             !.tool_result = GeneratorObject,
                             !.updated_final_content = st.updated_final_content]
               /\ UNCHANGED <<tools_used, base_messages, loop_flags, final_content,
                              events, raised>>
          ELSE IF outcome = RaiseOutcome
          THEN FailToolCall(st, [IdleExec EXCEPT !.tool = t, !.args = args],
                            "handler")
          ELSE LET ex == [IdleExec EXCEPT !.tool = t, !.args = args,
                                          !.tool_result = outcome]
               IN IF HasIter(outcome)
                  THEN \* `for chunk in tool_result`: a character has no .type
                       IF outcome.text # <<>>
                       THEN FailToolCall(st, ex, "loop")
                       ELSE CompleteToolCall(st, ex, Str(<<GeneratorToolCompleted>>),
                                             <<>>, <<>>, st.updated_final_content,
                                             <<>>)
                  ELSE CompleteToolCall(st, ex, outcome, <<>>, <<>>,
                                        st.updated_final_content, <<>>)

(* ---------------------------- _process_streaming_response -------------- *)
_handle_tool_call_streaming(st, name, arguments) ==
  [st EXCEPT !.tool_call_detected = TRUE,
             !.tool_call_name = IF @ = NoName THEN name ELSE @,
             !.collected_args = @ \o arguments]

\* Variant: an unmatched name raises instead of giving a result text.
AfterDeltaUnknownRaises(st0, finish_reason, outcome, script) ==
  LET st == IF finish_reason # "none" /\ st0.tool_call_detected
               /\ finish_reason # "tool_calls"
            THEN [st0 EXCEPT !.streaming_interrupted = TRUE] ELSE st0
  IN IF st.tool_call_detected /\ finish_reason = "tool_calls"
     THEN LET selected == _find_tool_by_name(st.tool_call_name)
          IN IF selected = <<>>
             THEN /\ FailToolCall(st, IdleExec, "loop")
                  /\ UNCHANGED handlerCalls
             ELSE _execute_tool_function(selected[1],
                                         _parse_tool_arguments(st.collected_args),
                                         st, outcome, script)
     ELSE /\ stream' = st
          /\ UNCHANGED <<tools_used, base_messages, loop_flags, final_content,
                         events, exec, pc, raised, handlerCalls>>

\* The part of the loop body after _handle_tool_call_streaming.
AfterDelta(st0, finish_reason, outcome, script) ==
  LET st == IF finish_reason # "none" /\ st0.tool_call_detected
               /\ finish_reason # "tool_calls"
            THEN [st0 EXCEPT !.streaming_interrupted = TRUE] ELSE st0
  IN IF st.tool_call_detected /\ finish_reason = "tool_calls"
     THEN LET selected == _find_tool_by_name(st.tool_call_name)
          IN IF selected = <<>>
             THEN /\ CompleteToolCall(st, IdleExec,
                                      Str(<<UnknownFunction, st.tool_call_name>>),
                                      <<>>, <<>>, st.updated_final_content, <<>>)
                  /\ UNCHANGED handlerCalls
             ELSE _execute_tool_function(selected[1],
                                         _parse_tool_arguments(st.collected_args),
                                         st, outcome, script)
     ELSE /\ stream' = st
          /\ UNCHANGED <<tools_used, base_messages, loop_flags, final_content,
                         events, exec, pc, raised, handlerCalls>>

\* Variant: content is streamed also while a tool call is under way.
StreamContentDeltaAlways ==
  /\ Running /\ pc = "streaming"
  /\ contentDeltas < MaxContentDeltas /\ contentDeltas < Len(ContentTokens)
  /\ contentDeltas' = contentDeltas + 1
  /\ stream' = [stream EXCEPT !.updated_final_content =
                                 @ \o ContentDelta(contentDeltas + 1)]
  /\ events' = Append(events, Event("chunk", ContentDelta(contentDeltas + 1)))
  /\ UNCHANGED <<registry, serviceVars, consumed, delivered, peer, tools_limit, pc, base_messages, tools_used,
                 final_content, loop_flags, exec, request, numRequests,
                 handlerCalls, autoRuns, cleanupCalls, raised, escaped, abandoned,
                 pending, iteration, cleanupFailed>>

\* A delta with content: streamed unless a tool call is under way.
StreamContentDelta ==
  /\ Running /\ pc = "streaming"
  /\ contentDeltas < MaxContentDeltas /\ contentDeltas < Len(ContentTokens)
  /\ contentDeltas' = contentDeltas + 1
  /\ IF ~stream.tool_call_detected
     THEN /\ stream' = [stream EXCEPT !.updated_final_content =
                                        @ \o ContentDelta(contentDeltas + 1)]
          /\ events' = Append(events, Event("chunk", ContentDelta(contentDeltas + 1)))
     ELSE UNCHANGED <<stream, events>>
  /\ UNCHANGED <<registry, serviceVars, consumed, delivered, peer, tools_limit, pc, base_messages, tools_used,
                 final_content, loop_flags, exec, request, numRequests,
                 handlerCalls, autoRuns, cleanupCalls, raised, escaped, abandoned,
                 pending, iteration, cleanupFailed>>

\* A delta with tool_calls (and maybe a finish reason) that carries the
\* next n lexemes of the argument text.
ToolCallDelta(name, n, finish_reason, outcome, script) ==
  /\ n \in 0..Len(pending)
  /\ pending' = SubSeq(pending, n + 1, Len(pending))
  /\ AfterDelta(_handle_tool_call_streaming(
                  [stream EXCEPT !.chunks = @ + 1], name, SubSeq(pending, 1, n)),
                finish_reason, outcome, script)

StreamToolCallDelta(name, n, finish_reason, outcome, script) ==
  /\ Running /\ pc = "streaming"
  /\ stream.chunks < MaxToolDeltas
  /\ ToolCallDelta(name, n, finish_reason, outcome, script)
  /\ UNCHANGED <<registry, serviceVars, consumed, delivered, peer, tools_limit, request, numRequests, autoRuns,
                 cleanupCalls, escaped, abandoned,
                 contentDeltas, iteration, cleanupFailed>>

\* Variant: at a finish delta the loop leaves the stream where it is and
\* goes on to its next iteration.
StreamFinishDeltaLeaves(finish_reason, outcome, script) ==
  /\ Running /\ pc = "streaming"
  /\ stream.chunks < MaxToolDeltas
  /\ stream' = [stream EXCEPT !.chunks = @ + 1]
  /\ pc' = "prepare"
  /\ UNCHANGED <<registry, serviceVars, consumed, delivered, peer, tools_limit, request, numRequests, autoRuns,
                 cleanupCalls, escaped, abandoned,
                 contentDeltas, pending, iteration,
                 cleanupFailed, tools_used, base_messages, loop_flags,
                 final_content, events, exec, raised, handlerCalls>>

\* A delta with neither content nor tool_calls, only a finish reason.
StreamFinishDelta(finish_reason, outcome, script) ==
  /\ Running /\ pc = "streaming"
  /\ stream.chunks < MaxToolDeltas
  /\ AfterDelta([stream EXCEPT !.chunks = @ + 1], finish_reason, outcome, script)
  /\ UNCHANGED <<registry, serviceVars, consumed, delivered, peer, tools_limit, request, numRequests, autoRuns,
                 cleanupCalls, escaped, abandoned,
                 contentDeltas, pending, iteration,
                 cleanupFailed>>

\* The stream is exhausted: streaming_complete, then _should_continue_loop.
StreamExhausted ==
  /\ Running /\ pc = "streaming"
  /\ loop_flags' = [tool_call_detected |-> stream.tool_call_detected,
                    streaming_interrupted |-> stream.streaming_interrupted,
                    tool_call_name |-> stream.tool_call_name,
                    collected_args |-> stream.collected_args]
  /\ final_content' = stream.updated_final_content
  /\ stream' = [stream EXCEPT !.ended = "streaming_complete"]
  /\ IF _should_continue_loop(stream.tool_call_detected)
     THEN /\ pc' = "prepare"
          /\ UNCHANGED events
     ELSE /\ events' = Append(events, Event("complete", stream.updated_final_content))
          /\ pc' = "yielded_complete"
  /\ UNCHANGED <<registry, serviceVars, consumed, delivered, peer, tools_limit, base_messages, tools_used, exec, request,
                 numRequests, handlerCalls, autoRuns, cleanupCalls, raised,
                 escaped, abandoned,
                 contentDeltas, pending, iteration,
                 cleanupFailed>>

\* The transport raises while the stream is consumed; re-raised to the loop.
StreamRaises ==
  /\ Running /\ pc = "streaming"
  /\ OnException("transport")
  /\ UNCHANGED <<registry, serviceVars, consumed, delivered, peer, tools_limit, base_messages, tools_used, final_content,
                 loop_flags, stream, exec, request, numRequests, handlerCalls,
                 autoRuns, cleanupCalls, escaped, abandoned,
                 contentDeltas, pending, iteration,
                 cleanupFailed>>


(* ---------------------------- chunk-sequence handlers ------------------ *)
\* Variant: the accumulated text takes the chunk before placeholder
\* replacement while the event carries it after.
HandlerYieldsChunkUnprocessed ==
  /\ Running /\ pc = "executing"
  /\ exec.script # <<>>
  /\ LET kind == Head(exec.script).kind
         text == Head(exec.script).text
     IN CASE kind = "system" ->
               /\ events' = Append(events, Event("system_chunk", text))
               /\ exec' = [exec EXCEPT !.system_chunks = Append(@, text),
                                       !.script = Tail(@)]
          [] kind = "context" ->
               /\ events' = Append(events, Event("context_chunk", text))
               /\ exec' = [exec EXCEPT !.context_chunks = Append(@, text),
                                       !.script = Tail(@)]
          [] OTHER ->
               /\ events' = Append(events,
                                   Event("chunk", replace_message_placeholders(text)))
               /\ exec' = [exec EXCEPT !.updated_final_content = @ \o text,
                                       !.streamed_accumulator = Append(@, text),
                                       !.script = Tail(@)]
  /\ UNCHANGED <<registry, serviceVars, consumed, delivered, peer, tools_limit, pc, base_messages, tools_used,
                 final_content, loop_flags, stream, request, numRequests,
                 handlerCalls, autoRuns, cleanupCalls, raised, escaped, abandoned,
                 contentDeltas, pending, iteration,
                 cleanupFailed>>

\* The handler's generator yields one ResponseChunk.
HandlerYieldsChunk ==
  /\ Running /\ pc = "executing"
  /\ exec.script # <<>>
  /\ LET kind == Head(exec.script).kind
         text == Head(exec.script).text
     IN CASE kind = "system" ->
               /\ events' = Append(events, Event("system_chunk", text))
               /\ exec' = [exec EXCEPT !.system_chunks = Append(@, text),
                                       !.script = Tail(@)]
          [] kind = "context" ->
               /\ events' = Append(events, Event("context_chunk", text))
               /\ exec' = [exec EXCEPT !.context_chunks = Append(@, text),
                                       !.script = Tail(@)]
          [] OTHER ->
               LET processed_chunk_content == replace_message_placeholders(text)
               IN /\ events' = Append(events, Event("chunk", processed_chunk_content))
                  /\ exec' = [exec EXCEPT
                       !.updated_final_content = @ \o processed_chunk_content,
                       !.streamed_accumulator = Append(@, processed_chunk_content),
                       !.script = Tail(@)]
  /\ UNCHANGED <<registry, serviceVars, consumed, delivered, peer, tools_limit, pc, base_messages, tools_used,
                 final_content, loop_flags, stream, request, numRequests,
                 handlerCalls, autoRuns, cleanupCalls, raised, escaped, abandoned,
                 contentDeltas, pending, iteration,
                 cleanupFailed>>

\* Variant: only the last chunk of each kind is flushed.
HandlerExhaustedLastChunk ==
  /\ Running /\ pc = "executing"
  /\ exec.script = <<>>
  /\ LET combined_system_content ==
           replace_message_placeholders(Last(exec.system_chunks))
         combined_context_content ==
           replace_message_placeholders(Last(exec.context_chunks))
         system_acc == IF exec.system_chunks # <<>>
                       THEN <<combined_system_content>> ELSE <<>>
         context_acc == IF exec.context_chunks # <<>>
                        THEN <<combined_context_content>> ELSE <<>>
         yielded ==
           (IF exec.system_chunks # <<>>
            THEN <<Event("system_complete", combined_system_content)>> ELSE <<>>)
           \o (IF exec.context_chunks # <<>>
               THEN <<Event("context_complete", combined_context_content)>>
               ELSE <<>>)
     IN CompleteToolCall(stream,
                         [exec EXCEPT !.tool_result = Str(<<GeneratorToolCompleted>>)],
                         Str(<<GeneratorToolCompleted>>), system_acc,
                         context_acc, exec.updated_final_content, yielded)
  /\ UNCHANGED <<registry, serviceVars, consumed, delivered, peer, tools_limit, request, numRequests, handlerCalls,
                 autoRuns, cleanupCalls, escaped, abandoned,
                 contentDeltas, pending, iteration,
                 cleanupFailed>>

\* The handler's generator is exhausted: flush, then tool_execution_complete.
HandlerExhausted ==
  /\ Running /\ pc = "executing"
  /\ exec.script = <<>>
  /\ LET combined_system_content ==
           replace_message_placeholders(Join(exec.system_chunks))
         combined_context_content ==
           replace_message_placeholders(Join(exec.context_chunks))
         system_acc == IF exec.system_chunks # <<>>
                       THEN <<combined_system_content>> ELSE <<>>
         context_acc == IF exec.context_chunks # <<>>
                        THEN <<combined_context_content>> ELSE <<>>
         yielded ==
           (IF exec.system_chunks # <<>>
            THEN <<Event("system_complete", combined_system_content)>> ELSE <<>>)
           \o (IF exec.context_chunks # <<>>
               THEN <<Event("context_complete", combined_context_content)>>
               ELSE <<>>)
     IN CompleteToolCall(stream,
                         [exec EXCEPT !.tool_result = Str(<<GeneratorToolCompleted>>)],
                         Str(<<GeneratorToolCompleted>>), system_acc,
                         context_acc, exec.updated_final_content, yielded)
  /\ UNCHANGED <<registry, serviceVars, consumed, delivered, peer, tools_limit, request, numRequests, handlerCalls,
                 autoRuns, cleanupCalls, escaped, abandoned,
                 contentDeltas, pending, iteration,
                 cleanupFailed>>

\* The handler's generator raises.
HandlerRaises ==
  /\ Running /\ pc = "executing"
  /\ FailToolCall(stream, exec, "handler")
  /\ UNCHANGED <<registry, serviceVars, consumed, delivered, peer, tools_limit, request, numRequests, handlerCalls,
                 autoRuns, cleanupCalls, escaped, abandoned,
                 contentDeltas, pending, iteration,
                 cleanupFailed>>

(* ---------------------------- the consumer and the end of the run ------ *)
\* The consumer asks for the event after complete/error: the generator runs
\* its finally block and ends.
ConsumerResumes(hooks) ==
  /\ ~abandoned /\ pc \in {"yielded_complete", "yielded_error"}
  /\ Finalization(hooks)
  /\ UNCHANGED <<registry, serviceVars, consumed, delivered, peer, tools_limit, base_messages, tools_used, final_content,
                 numRequests, events,
                 handlerCalls, autoRuns, raised, escaped, abandoned,
                 contentDeltas>>

\* The consumer stops iterating after the terminal event, the generator
\* still suspended at that yield: run_inference_to_completion's break after
\* complete and its raise after error.
ConsumerAbandons ==
  /\ ~abandoned /\ pc \in {"yielded_complete", "yielded_error"}
  /\ abandoned' = TRUE
  /\ UNCHANGED <<registry, serviceVars, consumed, delivered, peer, tools_limit, pc, base_messages, tools_used,
                 final_content, loop_flags, stream, exec, request, numRequests,
                 events, handlerCalls, autoRuns, cleanupCalls, raised, escaped,
                 contentDeltas, pending, iteration,
                 cleanupFailed>>

\* The event loop's asyncgen finalizer closes the abandoned generator:
\* GeneratorExit at the yield, which only the finally block sees.
AsyncgenFinalizer(hooks) ==
  /\ abandoned /\ pc # "closed"
  /\ Finalization(hooks)
  /\ UNCHANGED <<registry, serviceVars, consumed, delivered, peer, tools_limit, base_messages, tools_used, final_content,
                 numRequests, events,
                 handlerCalls, autoRuns, raised, escaped, abandoned,
                 contentDeltas>>

\* Variant: cancellation ends the generator without its finally block.
CancelAtAwaitNoFinally(hooks) ==
  /\ Running
  /\ pc' = "closed"
  /\ loop_flags' = IdleLoopFlags
  /\ stream' = IdleStream
  /\ exec' = IdleExec
  /\ request' = NoRequest
  /\ pending' = <<>>
  /\ iteration' = NoIteration
  /\ escaped' = "CancelledError"
  /\ UNCHANGED <<registry, serviceVars, consumed, delivered, peer, tools_limit, base_messages, tools_used, final_content,
                 numRequests, events, cleanupCalls,
                 handlerCalls, autoRuns, raised, abandoned,
                 contentDeltas, cleanupFailed>>

\* The consuming task is cancelled while the generator awaits: CancelledError
\* passes `except Exception`, runs the finally block and reaches the consumer.
CancelAtAwait(hooks) ==
  /\ Running
  /\ Finalization(hooks)
  /\ escaped' = "CancelledError"
  /\ UNCHANGED <<registry, serviceVars, consumed, delivered, peer, tools_limit, base_messages, tools_used, final_content,
                 numRequests, events,
                 handlerCalls, autoRuns, raised, abandoned,
                 contentDeltas>>

\* The consuming task is cancelled while it handles an event, the generator
\* suspended at a yield: the exception is the consumer's, and the generator
\* is closed by the asyncgen finalizer.
CancelAtYield(hooks) ==
  /\ Running
  /\ Finalization(hooks)
  /\ abandoned' = TRUE
  /\ UNCHANGED <<registry, serviceVars, consumed, delivered, peer, tools_limit, base_messages, tools_used, final_content,
                 numRequests, events, handlerCalls, autoRuns, raised, escaped,
                 contentDeltas>>

(* ---------------------------- specification ---------------------------- *)
DeltaFinish == FinishReasons \cup {"none"}

Next ==
  \/ Start
  \/ \E report \in [Reporters -> MainReportOutcomes],
        cond \in [Conditional -> MainCondOutcomes],
        transport_ok \in BOOLEAN, buffer \in MainBuffers :
        /\ numRequests < MaxRequests
        /\ PrepareAndRequest(report, cond, transport_ok, buffer)
  \/ StreamContentDelta
  \/ \E name \in DeltaNames, fr \in DeltaFinish,
        outcome \in HandlerOutcomes, script \in HandlerScripts :
        StreamToolCallDelta(name, Len(pending), fr, outcome, script)
  \/ \E fr \in FinishReasons, outcome \in HandlerOutcomes, script \in HandlerScripts :
        StreamFinishDelta(fr, outcome, script)
  \/ StreamExhausted
  \/ StreamRaises
  \/ HandlerYieldsChunk
  \/ HandlerExhausted
  \/ HandlerRaises
  \/ ConsumerResumes(QuietHooks)
  \/ ConsumerAbandons
  \/ AsyncgenFinalizer(QuietHooks)
  \/ CancelAtAwait(QuietHooks)
  \/ CancelAtYield(QuietHooks)

Spec == Init /\ [][Next]_vars

(* ---------------------------- wide inputs, short runs ------------------ *)
MaxWideRequests == 1   \* completion requests per run when the inputs are wide
MaxFragments == 3      \* tool-call deltas of one completion stream, likewise
QuietReport == [t \in Reporters |-> "line"]
AllTrue == [t \in Conditional |-> "true"]
IntOutcome == [type |-> "int", text |-> <<"4">>]

\* A tool-call delta carrying a fragment of n lexemes (none only when the
\* argument text is used up).
FragmentDelta(name, n, finish_reason) ==
  /\ Running /\ pc = "streaming"
  /\ stream.chunks < MaxFragments
  /\ n >= 1 \/ pending = <<>>
  /\ ToolCallDelta(name, n, finish_reason, IntOutcome, <<>>)
  /\ UNCHANGED <<registry, serviceVars, consumed, delivered, peer, tools_limit, request, numRequests, autoRuns,
                 cleanupCalls, escaped, abandoned,
                 contentDeltas, iteration, cleanupFailed>>

\* Runs over every argument text, split into fragments at any position.
ArgumentsNext ==
  \/ Start
  \/ \E buffer \in ArgBuffers :
        /\ numRequests < MaxWideRequests
        /\ PrepareAndRequest(QuietReport, AllTrue, TRUE, buffer)
  \/ \E n \in 0..Len(pending), fr \in {"none", "tool_calls"} :
        FragmentDelta("roll_dice", n, fr)

ArgumentsSpec == Init /\ [][ArgumentsNext]_vars

\* Runs over every outcome of the status reporters, the condition
\* predicates and the cleanup hooks.
CallbacksNext ==
  \/ Start
  \/ \E report \in [Reporters -> ReportOutcomes],
        cond \in [Conditional -> CondOutcomes] :
        /\ numRequests < MaxWideRequests
        /\ PrepareAndRequest(report, cond, TRUE, <<>>)
  \/ StreamContentDelta
  \/ StreamExhausted
  \/ StreamRaises
  \/ \E hooks \in [Hooked -> HookOutcomes] : ConsumerResumes(hooks)
  \/ \E hooks \in [Hooked -> HookOutcomes] : CancelAtAwait(hooks)

CallbacksSpec == Init /\ [][CallbacksNext]_vars

(* ---------------------------- a second, concurrent run ----------------- *)
\* The second run's top of the while loop and its completions.create.
PeerPrepareAndRequest(report, cond) ==
  /\ peer.pc = "prepare"
  /\ peer.numRequests < MaxRequests
  /\ LET it == _prepare_loop_iteration(peer.base_messages, peer.tools_used,
                                       tools_limit, report, cond)
     IN peer' = [peer EXCEPT
          !.request = _prepare_api_request(it.messages_for_api, it.available_tools),
          !.numRequests = @ + 1,
          !.iteration = [report |-> report, cond |-> cond],
          !.pc = "streaming"]
  /\ UNCHANGED <<registry, serviceVars, tools_limit, pc, base_messages, tools_used,
                 final_content, loop_flags, stream, exec, request, numRequests,
                 events, handlerCalls, autoRuns, cleanupCalls, raised, escaped,
                 abandoned, contentDeltas, pending, iteration, cleanupFailed,
                 consumed, delivered>>

\* Variant: the usage list is one list shared by all runs.
PeerToolCallCompletesShared(name) ==
  /\ peer.pc = "streaming"
  /\ peer' = [peer EXCEPT
       !.tools_used = TrackUsage(@, name),
       !.base_messages = _process_tool_call_completion(@, name, <<>>, <<>>, <<>>),
       !.pc = "prepare"]
  /\ tools_used' = TrackUsage(tools_used, name)
  /\ UNCHANGED <<registry, serviceVars, tools_limit, pc, base_messages,
                 final_content, loop_flags, stream, exec, request, numRequests,
                 events, handlerCalls, autoRuns, cleanupCalls, raised, escaped,
                 abandoned, contentDeltas, pending, iteration, cleanupFailed,
                 consumed, delivered>>

\* The second run handles a tool_call_complete event for a call to name.
PeerToolCallCompletes(name) ==
  /\ peer.pc = "streaming"
  /\ peer' = [peer EXCEPT
       !.tools_used = TrackUsage(@, name),
       !.base_messages = _process_tool_call_completion(@, name, <<>>, <<>>, <<>>),
       !.pc = "prepare"]
  /\ UNCHANGED <<registry, serviceVars, tools_limit, pc, base_messages, tools_used,
                 final_content, loop_flags, stream, exec, request, numRequests,
                 events, handlerCalls, autoRuns, cleanupCalls, raised, escaped,
                 abandoned, contentDeltas, pending, iteration, cleanupFailed,
                 consumed, delivered>>

\* The second run's stream ends without a tool call: its loop breaks.
PeerStreamExhausted ==
  /\ peer.pc = "streaming"
  /\ peer' = [peer EXCEPT !.pc = "done"]
  /\ UNCHANGED <<registry, serviceVars, tools_limit, pc, base_messages, tools_used,
                 final_content, loop_flags, stream, exec, request, numRequests,
                 events, handlerCalls, autoRuns, cleanupCalls, raised, escaped,
                 abandoned, contentDeltas, pending, iteration, cleanupFailed,
                 consumed, delivered>>

\* The second run has yielded complete and is resumed: its finally clause
\* calls the cleanup_function of every enabled tool.
PeerFinalization ==
  /\ peer.pc = "done"
  /\ peer' = [peer EXCEPT !.pc = "closed"]
  /\ cleanupCalls' =
       [t \in ToolIds |->
          IF t \in Range(get_enabled_tools) /\ ToolDef[t].cleanup_function
          THEN cleanupCalls[t] + 1 ELSE cleanupCalls[t]]
  /\ UNCHANGED <<registry, serviceVars, tools_limit, pc, base_messages, tools_used,
                 final_content, loop_flags, stream, exec, request, numRequests,
                 events, handlerCalls, autoRuns, raised, escaped,
                 abandoned, contentDeltas, pending, iteration, cleanupFailed,
                 consumed, delivered>>

PeerNames == {"roll_dice", "think"}

\* Two runs over one registry, interleaved at their suspension points.
ConcurrentNext ==
  \/ Start
  \/ \E cond \in [Conditional -> MainCondOutcomes] :
        /\ numRequests < MaxRequests
        /\ PrepareAndRequest(QuietReport, cond, TRUE, SidesObject)
  \/ \E name \in PeerNames :
        StreamToolCallDelta(name, Len(pending), "tool_calls", IntOutcome,
                            <<Chunk("system", <<"thinks">>)>>)
  \/ HandlerYieldsChunk
  \/ HandlerExhausted
  \/ StreamExhausted
  \/ \E cond \in [Conditional -> MainCondOutcomes] :
        PeerPrepareAndRequest(QuietReport, cond)
  \/ \E name \in PeerNames : PeerToolCallCompletes(name)
  \/ PeerStreamExhausted
  \/ PeerFinalization

ConcurrentSpec == Init /\ [][ConcurrentNext]_vars

(* ---------------------------- runs that are never cut short ----------- *)
\* The function names the request in flight offers to the model.
Offered == Range(request.tools)

\* Every stream ends, every handler returns or raises, the consumer keeps
\* iterating, and the model asks only for tools the request offers.  The
\* number of requests is not bounded here.
LiveNext ==
  \/ Start
  \/ \E cond \in [Conditional -> MainCondOutcomes], transport_ok \in BOOLEAN :
        PrepareAndRequest(QuietReport, cond, transport_ok, SidesObject)
  \/ \E name \in Offered, fr \in DeltaFinish,
        outcome \in HandlerOutcomes, script \in HandlerScripts :
        StreamToolCallDelta(name, Len(pending), fr, outcome, script)
  \/ StreamExhausted
  \/ StreamRaises
  \/ HandlerYieldsChunk
  \/ HandlerExhausted
  \/ HandlerRaises

\* The generator runs on whenever it can: each kind of step is taken if
\* it stays possible.
LiveRequest ==
  \E cond \in [Conditional -> MainCondOutcomes] :
    PrepareAndRequest(QuietReport, cond, TRUE, SidesObject)
LiveSpec ==
  /\ Init /\ [][LiveNext]_vars
  /\ WF_vars(Start) /\ WF_vars(LiveRequest) /\ WF_vars(StreamExhausted)
  /\ WF_vars(HandlerYieldsChunk) /\ WF_vars(HandlerExhausted)

(* ---------------------------- every short chunk sequence --------------- *)
MaxChunks == 3   \* chunks a handler yields when every sequence is tried
ChunkKinds == {"system", "context", "assistant"}
ChunkTexts == <<"{{char}}", "x", "y", "z">>
\* Every sequence of 1..MaxChunks chunks; the i-th chunk carries the i-th text.
ChunkScripts ==
  UNION {{[i \in 1..n |-> Chunk(kinds[i], <<ChunkTexts[i]>>)] : kinds \in [1..n -> ChunkKinds]} : n \in 1..MaxChunks}

\* One call of the chunk-sequence handler think, over every such sequence.
ChunksNext ==
  \/ Start
  \/ /\ numRequests < MaxWideRequests
     /\ PrepareAndRequest(QuietReport, AllTrue, TRUE, <<>>)
  \/ \E script \in ChunkScripts :
        StreamToolCallDelta("think", 0, "tool_calls", IntOutcome, script)
  \/ HandlerYieldsChunk
  \/ HandlerExhausted

ChunksSpec == Init /\ [][ChunksNext]_vars

(* ---------------------------- every condition outcome, twice ----------- *)
\* Two iterations with every outcome of the condition predicates; the model
\* calls only what the request offers.
ConditionsNext ==
  \/ Start
  \/ \E cond \in [Conditional -> CondOutcomes] :
        /\ numRequests < MaxRequests
        /\ PrepareAndRequest(QuietReport, cond, TRUE, <<>>)
  \/ StreamContentDelta
  \/ \E name \in Offered :
        StreamToolCallDelta(name, 0, "tool_calls", IntOutcome,
                            <<Chunk("system", <<"thinks">>)>>)
  \/ HandlerYieldsChunk
  \/ HandlerExhausted
  \/ StreamExhausted

ConditionsSpec == Init /\ [][ConditionsNext]_vars

(* ---------------------------- any registered name requested ----------- *)
\* The schema names of the registered tools.
ToolNames == {ToolDef[t].name : t \in ToolIds}

\* The model may name any registered tool in its tool call, offered or not.
NamesNext ==
  \/ Start
  \/ /\ numRequests < MaxRequests
     /\ PrepareAndRequest(QuietReport, AllTrue, TRUE, <<>>)
  \/ \E name \in ToolNames :
        StreamToolCallDelta(name, 0, "tool_calls", IntOutcome,
                            <<Chunk("system", <<"thinks">>)>>)
  \/ HandlerYieldsChunk
  \/ HandlerExhausted
  \/ StreamExhausted

NamesSpec == Init /\ [][NamesNext]_vars

(* ---------------------------- get_streaming_generator ------------------ *)
MessageNotFound == "ERROR_MESSAGE_NOT_FOUND_REGEN"   \* utils.constants, by name

\* Variant: system chunks are only accumulated for the persisted message.
get_streaming_generator_buffering(event, found) ==
  CASE event.type = "system_chunk" -> <<>>
    [] event.type \in {"system_complete", "context_complete"} ->
         <<Event(event.type, replace_message_placeholders(event.content))>>
    [] event.type = "complete" ->
         IF found THEN <<Event("message_complete", event.content)>>
         ELSE <<Event("error", <<MessageNotFound>>)>>
    [] OTHER -> <<event>>

\* What the body of the adapter's `async for` yields for one event of
\* inference_loop; found: the message to regenerate is in the database.
get_streaming_generator(event, found) ==
  CASE event.type \in {"system_complete", "context_complete"} ->
         <<Event(event.type, replace_message_placeholders(event.content))>>
    [] event.type = "complete" ->
         IF found THEN <<Event("message_complete", event.content)>>
         ELSE <<Event("error", <<MessageNotFound>>)>>
    [] OTHER -> <<event>>

\* inference_loop is suspended at a yield until the adapter has handled
\* the event and its own consumer asks for the next one.
AdapterCaughtUp == consumed = Len(events)

AdapterYields(found) ==
  /\ consumed < Len(events)
  /\ consumed' = consumed + 1
  /\ delivered' = delivered \o get_streaming_generator(events[consumed + 1], found)
  /\ UNCHANGED <<registry, serviceVars, tools_limit, pc, base_messages, tools_used,
                 final_content, loop_flags, stream, exec, request, numRequests,
                 events, handlerCalls, autoRuns, cleanupCalls, raised, escaped,
                 abandoned, contentDeltas, pending, iteration, cleanupFailed,
                 peer>>

\* Runs consumed through the adapter, which iterates inference_loop to its end.
AdapterNext ==
  \/ AdapterCaughtUp /\ Start
  \/ \E transport_ok \in BOOLEAN :
        /\ AdapterCaughtUp /\ numRequests < MaxRequests
        /\ PrepareAndRequest(QuietReport, AllTrue, transport_ok, SidesObject)
  \/ AdapterCaughtUp /\ StreamContentDelta
  \/ \E fr \in DeltaFinish, script \in HandlerScripts :
        AdapterCaughtUp /\ StreamToolCallDelta("think", Len(pending), fr, IntOutcome, script)
  \/ AdapterCaughtUp /\ StreamExhausted
  \/ AdapterCaughtUp /\ StreamRaises
  \/ AdapterCaughtUp /\ HandlerYieldsChunk
  \/ AdapterCaughtUp /\ HandlerExhausted
  \/ AdapterCaughtUp /\ HandlerRaises
  \/ AdapterCaughtUp /\ ConsumerResumes(QuietHooks)
  \/ \E found \in BOOLEAN : AdapterYields(found)

AdapterSpec == Init /\ [][AdapterNext]_vars

(* ---------------------------- KV store lists --------------------------- *)
MaxPushes == 2   \* push calls each task makes on the list key
PushOps == {"lpush", "rpush"}

\* current = await self.get(key, []): the call starts and reads the list.
\* The value pushed names the task and the number of the call.
PushReads(k, op) ==
  /\ pushers[k].pc = "idle" /\ Len(pushers[k].returned) < MaxPushes
  /\ pushers' = [pushers EXCEPT ![k].pc = "got", ![k].op = op,
                                ![k].value = <<k, Len(pushers[k].returned) + 1>>,
                                ![k].current = kv.list]
  /\ UNCHANGED kv

\* current.insert(0, value) or current.extend(values);
\* await self.set(key, current); return len(current)
PushWrites(k) ==
  /\ pushers[k].pc = "got"
  /\ kv' = [kv EXCEPT !.list = IF pushers[k].op = "lpush"
                                THEN <<pushers[k].value>> \o pushers[k].current
                                ELSE Append(pushers[k].current, pushers[k].value)]
  /\ pushers' = [pushers EXCEPT ![k].pc = "idle",
                                ![k].returned = Append(@, pushers[k].value)]

\* Push calls of two tasks on one key, interleaved at their awaits.
PushNext ==
  \/ \E k \in Pushers, op \in PushOps :
        PushReads(k, op) /\ UNCHANGED <<loopVars, db, writers, enabledFlags, togglers, connections, subscriptions>>
  \/ \E k \in Pushers :
        PushWrites(k) /\ UNCHANGED <<loopVars, db, writers, enabledFlags, togglers, connections, subscriptions>>

(* ---------------------------- websocket manager ------------------------ *)
ClientIds == {"c1", "c2"}
Topics == {"hp", "mood"}

\* A dict without one key, and a dict with one key set.
Without(d, key) == [x \in DOMAIN d \ {key} |-> d[x]]
With(d, key, value) == [x \in DOMAIN d \cup {key} |-> IF x = key THEN value ELSE d[x]]

\* The topic dict after _unsubscribe_from_topic(client_id, topic).
TopicsAfterUnsubscribe(subs, client_id, topic) ==
  IF topic \in DOMAIN subs
  THEN IF subs[topic] \ {client_id} = {} THEN Without(subs, topic)
       ELSE With(subs, topic, subs[topic] \ {client_id})
  ELSE subs

RECURSIVE TopicsAfterUnsubscribeAll(_, _, _)
TopicsAfterUnsubscribeAll(subs, client_id, topics) ==
  IF topics = {} THEN subs
  ELSE LET topic == CHOOSE t \in topics : TRUE
       IN TopicsAfterUnsubscribeAll(TopicsAfterUnsubscribe(subs, client_id, topic),
                                    client_id, topics \ {topic})

\* self.connections[client_id] = WebSocketConnection(...): a new connection
\* with an empty subscription set, whatever was stored under the id.
connect(client_id) ==
  /\ connections' = With(connections, client_id, {})
  /\ UNCHANGED subscriptions

\* The connection is popped first, so _unsubscribe_from_topic finds none
\* under the id and only the topic dict changes.
disconnect(client_id) ==
  /\ client_id \in DOMAIN connections
  /\ connections' = Without(connections, client_id)
  /\ subscriptions' = TopicsAfterUnsubscribeAll(subscriptions, client_id, connections[client_id])

subscribe(client_id, topic) ==
  /\ client_id \in DOMAIN connections
  /\ connections' = With(connections, client_id, connections[client_id] \cup {topic})
  /\ subscriptions' = With(subscriptions, topic,
                           (IF topic \in DOMAIN subscriptions THEN subscriptions[topic] ELSE {})
                             \cup {client_id})

unsubscribe(client_id, topic) ==
  /\ client_id \in DOMAIN connections
  /\ connections' = With(connections, client_id, connections[client_id] \ {topic})
  /\ subscriptions' = TopicsAfterUnsubscribe(subscriptions, client_id, topic)

\* broadcast_to_topic where the send to client_id fails, or the subscriber
\* has no connection: the client is disconnected.
broadcast_to_topic(topic, client_id) ==
  /\ topic \in DOMAIN subscriptions /\ client_id \in subscriptions[topic]
  /\ IF client_id \in DOMAIN connections
     THEN disconnect(client_id)
     ELSE UNCHANGED <<connections, subscriptions>>

WebSocketNext ==
  \/ \E c \in ClientIds : connect(c) /\ UNCHANGED <<loopVars, db, writers, kv, enabledFlags, togglers, pushers>>
  \/ \E c \in ClientIds : disconnect(c) /\ UNCHANGED <<loopVars, db, writers, kv, enabledFlags, togglers, pushers>>
  \/ \E c \in ClientIds, t \in Topics :
        subscribe(c, t) /\ UNCHANGED <<loopVars, db, writers, kv, enabledFlags, togglers, pushers>>
  \/ \E c \in ClientIds, t \in Topics :
        unsubscribe(c, t) /\ UNCHANGED <<loopVars, db, writers, kv, enabledFlags, togglers, pushers>>
  \/ \E c \in ClientIds, t \in Topics :
        broadcast_to_topic(t, c) /\ UNCHANGED <<loopVars, db, writers, kv, enabledFlags, togglers, pushers>>

SequenceSpec == Init /\ [][SequenceNext]_vars
WebSocketSpec == Init /\ [][WebSocketNext]_vars
PushSpec == Init /\ [][PushNext]_vars
ToggleSpec == Init /\ [][ToggleNext]_vars

(* ---------------------------- properties ------------------------------- *)
HasEvent(type) == \E i \in DOMAIN events : events[i].type = type
CountEvents(type) == Cardinality({i \in DOMAIN events : events[i].type = type})

RECURSIVE ConcatChunks(_)
ConcatChunks(evs) ==
  IF evs = <<>> THEN <<>>
  ELSE (IF Head(evs).type = "chunk" THEN Head(evs).content ELSE <<>>)
         \o ConcatChunks(Tail(evs))

PlainTypes == {"int", "str", "NoneType"}
CallCompleted == pc = "prepare" /\ stream.ended = "tool_call_complete"
BudgetReached == NumToolsUsed(tools_used) >= tools_limit
IsToolPrompt(m) == m.role = "system" /\ ToolPromptHeader \in Range(m.content)
IsStatusBlock(m) ==
  /\ m.role = "system"
  /\ (StatusOpen \in Range(m.content) \/ NoStatusSentinel \in Range(m.content))
CleanupDue(t) ==
  t \in registry /\ ToolDef[t].enabled /\ ToolDef[t].cleanup_function

\* C1: when a primary handler returns a plain value (not a chunk sequence),
\* that value is the call's tool result, no error event is emitted, and the
\* loop goes on towards the next completion request.
C1_PlainValueIsToolResult ==
  (/\ exec.tool # ""
   /\ ToolDef[exec.tool].function = "plain"
   /\ exec.tool_result.type \in PlainTypes)
  => /\ ~HasEvent("error")
     /\ CallCompleted
     /\ stream.tool_result = exec.tool_result

\* C2: after a completed tool call the history holds a tool-role turn whose
\* text is the tool result, and the following request carries a tool turn.
C2_ToolResultTurnAppended ==
  /\ CallCompleted =>
       \E i \in DOMAIN base_messages :
          /\ base_messages[i].role = "tool"
          /\ base_messages[i].content = stream.tool_result.text
  /\ (pc = "streaming" /\ tools_used # <<>>) =>
       \E i \in DOMAIN request.messages : request.messages[i].role = "tool"

\* C3: the assistant turn recorded for a completed tool call carries the
\* called name and the raw argument text collected from the stream.
C3_CallTurnRecordsArguments ==
  CallCompleted =>
    \E i \in DOMAIN base_messages :
       /\ base_messages[i].role = "assistant"
       /\ base_messages[i].tool_calls =
            <<[name |-> stream.tool_call_name,
               arguments |-> stream.collected_args]>>

\* C4: the text of the complete event is the concatenation, in order, of the
\* payloads of the chunk events before it; a run without a tool call emits
\* start, then only chunk events, then complete.
C4_CompleteIsConcatenation ==
  /\ \A i \in DOMAIN events :
       events[i].type = "complete" =>
         events[i].content = ConcatChunks(SubSeq(events, 1, i - 1))
  /\ (HasEvent("complete") /\ tools_used = <<>>) =>
       /\ events[1].type = "start"
       /\ events[Len(events)].type = "complete"
       /\ \A i \in 2..(Len(events) - 1) : events[i].type = "chunk"

C4_Witness ==
  /\ pc = "yielded_complete"
  /\ tools_used = <<"think">>
  /\ CountEvents("chunk") >= 2
  /\ HasEvent("context_complete")

\* C5: a one_time tool that is in tools_used is neither in the tools list
\* nor in the tool prompt of any later request of the run.
C5_OneTimeNotReoffered ==
  pc \in {"streaming", "executing"} =>
    \A t \in ToolIds :
       (ToolDef[t].one_time /\ ToolDef[t].name \in Range(tools_used)) =>
         /\ ToolDef[t].name \notin Range(request.tools)
         /\ \A i \in DOMAIN request.messages :
              IsToolPrompt(request.messages[i]) =>
                ToolDef[t].name \notin Range(request.messages[i].content)

C5_Witness ==
  /\ pc = "streaming"
  /\ tools_used = <<"roll_dice">>
  /\ IsToolPrompt(Head(request.messages))
  /\ "think" \in Range(Head(request.messages).content)

\* C6: the handler of a one_time tool is executed at most once in a run.
C6_OneTimeHandlerAtMostOnce ==
  \A t \in ToolIds : ToolDef[t].one_time => handlerCalls[t] <= 1

C8_TransportFailureEndsRun ==
  /\ [](raised = "transport" =>
          /\ events # <<>>
          /\ events[Len(events)].type = "error"
          /\ CountEvents("error") = 1
          /\ ~HasEvent("complete"))
  /\ [][/\ IsPrefix(events, events')
        /\ raised = "transport" => numRequests' = numRequests]_vars

C8_Witness ==
  /\ raised = "transport"
  /\ numRequests = 2
  /\ HasEvent("chunk")
  /\ events[Len(events)].type = "error"

\* C9 as stated: an exception raised by a primary handler is not caught; it
\* leaves the loop towards the caller instead of becoming an error event.
C9_HandlerExceptionPropagates ==
  raised = "handler" => (escaped # "none" /\ ~HasEvent("error"))

\* C9: an exception raised by a primary handler is caught by the loop and
\* delivered as one error event, the last of the run; nothing escapes the
\* generator, the call leaves no usage entry and no turn in the history, no
\* further request is issued and no complete event is emitted.
C9_HandlerExceptionReported ==
  /\ [](raised = "handler" =>
          /\ events[Len(events)].type = "error"
          /\ CountEvents("error") = 1
          /\ ~HasEvent("complete")
          /\ escaped = "none")
  /\ [][raised' = "handler" =>
          /\ tools_used' = tools_used
          /\ base_messages' = base_messages
          /\ numRequests' = numRequests]_vars

C9_Witness ==
  /\ raised = "handler"
  /\ HasEvent("system_chunk")
  /\ events[Len(events)].type = "error"
  /\ handlerCalls["thinking.think"] = 1

\* C10: reaching tools_limit does not end the run: the next request is still
\* issued, led by a status block, with no tool prompt and no tools list.
C10_BudgetDoesNotEndRun ==
  /\ []((pc \in {"streaming", "executing"} /\ BudgetReached) =>
          /\ request.tools = <<>>
          /\ \A i \in DOMAIN request.messages : ~IsToolPrompt(request.messages[i])
          /\ IsStatusBlock(Head(request.messages)))
  /\ [][/\ Len(tools_used') > Len(tools_used) => pc' = "prepare"
        /\ (pc = "prepare" /\ BudgetReached /\ pc' \notin {"prepare", "closed"})
             => numRequests' = numRequests + 1]_vars

C10_Witness ==
  /\ pc = "streaming"
  /\ registry # {}
  /\ BudgetReached
  /\ request.tools = <<>>

\* C11: the budget is the number of distinct non-empty names in tools_used:
\* the iteration prepared from any point of a run offers a tool prompt
\* exactly when fewer than tools_limit distinct names have been used.
C11_BudgetCountsDistinctNames ==
  (pc = "prepare" /\ registry # {}) =>
    \A report \in [Reporters -> ReportOutcomes], cond \in [Conditional -> CondOutcomes] :
       LET it == _prepare_loop_iteration(base_messages, tools_used, tools_limit,
                                         report, cond)
       IN IsToolPrompt(Head(it.messages_for_api))
            <=> Cardinality(Range(tools_used) \ {""}) < tools_limit

IsObjectText(s) == json_loads(s).kind = "object"
TwoObjects(s) ==
  \E k \in 1..(Len(s) - 1) :
     IsObjectText(SubSeq(s, 1, k)) /\ IsObjectText(SubSeq(s, k + 1, Len(s)))
HandlerEntered == exec.tool # ""

\* C12: when the argument fragments concatenate to one valid JSON object,
\* the arguments handed to the handler are the JSON parse of the
\* concatenation.
C12_ArgumentsAreParsedConcatenation ==
  (HandlerEntered /\ IsObjectText(stream.collected_args)) =>
    exec.args = json_loads(stream.collected_args)

\* C13: when the argument text is two complete JSON objects back to back,
\* the arguments are exactly the first object.
C13_FirstOfTwoObjects ==
  HandlerEntered =>
    \A k \in 1..(Len(stream.collected_args) - 1) :
       (/\ IsObjectText(SubSeq(stream.collected_args, 1, k))
        /\ IsObjectText(SubSeq(stream.collected_args, k + 1,
                               Len(stream.collected_args))))
       => exec.args = json_loads(SubSeq(stream.collected_args, 1, k))

\* C14: when the argument text is not one JSON object (and not two objects
\* back to back), the matched handler is executed with an empty argument
\* object and no error event is emitted.
C14_UnparseableArgumentsBecomeEmpty ==
  (/\ HandlerEntered
   /\ ~IsObjectText(stream.collected_args)
   /\ ~TwoObjects(stream.collected_args))
  => /\ exec.args = EmptyObject
     /\ handlerCalls[exec.tool] = 1
     /\ ~HasEvent("error")

UnknownName(name) == _find_tool_by_name(name) = <<>>

\* C15: a requested name that matches no enabled tool never raises: the
\* call completes with the result "Unknown function: <name>", no handler
\* runs, no event is emitted, and the loop goes on to the next request.
C15_UnknownFunctionRecovered ==
  /\ []((pc = "yielded_error" /\ raised \in {"handler", "loop"})
          => ~UnknownName(stream.tool_call_name))
  /\ [][(Len(tools_used') > Len(tools_used) /\ UnknownName(stream'.tool_call_name))
          => /\ stream'.tool_result = Str(<<UnknownFunction, stream'.tool_call_name>>)
             /\ handlerCalls' = handlerCalls
             /\ events' = events
             /\ pc' = "prepare"]_vars

C15_Witness ==
  /\ registry = ToolIds
  /\ pc = "streaming"
  /\ numRequests = 2
  /\ tools_used = <<"narrate">>
  /\ ~HasEvent("error")

\* The text a status line has in the transmitted request.
SentLine(t) == replace_message_placeholders(<<ToolDef[t].status_line>>)[1]
EnabledTools == Range(get_enabled_tools)
ConditionRaised(t) == t \in Conditional \cap EnabledTools /\ iteration.cond[t] = "raise"
ReporterRaised(t) == t \in Reporters \cap EnabledTools /\ iteration.report[t] = "raise"
Framing == {Separator, StatusOpen, StatusClose, NoStatusSentinel}

\* C16: in an iteration where an enabled tool's condition raises, neither
\* the tool prompt of the request names that tool nor its status section
\* holds that tool's line, and no error event exists.
C16_RaisingConditionOmitsTool ==
  \A t \in ToolIds :
    (pc = "streaming" /\ iteration # NoIteration /\ ConditionRaised(t))
      => /\ \A i \in DOMAIN request.messages :
              LET m == request.messages[i]
              IN /\ IsToolPrompt(m) => ToolDef[t].name \notin Range(m.content)
                 /\ IsStatusBlock(m) => SentLine(t) \notin Range(m.content)
         /\ ~HasEvent("error")

\* C17: in an iteration where an enabled tool's reporter raises, no error
\* event exists and the status section holds exactly the lines of the
\* reporters that returned a text, in registry order.
C17_RaisingReporterContributesNothing ==
  (pc = "streaming" /\ iteration # NoIteration /\ \E t \in ToolIds : ReporterRaised(t))
    => /\ ~HasEvent("error")
       /\ \A i \in DOMAIN request.messages :
            LET m == request.messages[i]
                returned(t) == ToolDef[t].report_status /\ iteration.report[t] = "line"
                others == SelectSeq(get_enabled_tools, returned)
            IN IsStatusBlock(m)
                 => SelectSeq(m.content, LAMBDA x : x \notin Framing)
                      = [j \in DOMAIN others |-> SentLine(others[j])]

\* C18: every request carries a status section, which is never empty, and
\* when no enabled tool's reporter returns a line it is the fixed sentinel
\* section.
C18_StatusSectionNeverEmpty ==
  (pc = "streaming" /\ iteration # NoIteration)
    => /\ \E i \in DOMAIN request.messages : IsStatusBlock(request.messages[i])
       /\ \A i \in DOMAIN request.messages :
            request.messages[i].role = "system" => request.messages[i].content # <<>>
       /\ (\A t \in Reporters \cap EnabledTools : iteration.report[t] = "empty")
            => \E i \in DOMAIN request.messages :
                 request.messages[i] = Msg("system", <<NoStatusSentinel, Separator>>)

C18_Witness ==
  /\ pc = "streaming"
  /\ registry = ToolIds
  /\ \A t \in Reporters : iteration.report[t] = "empty"
  /\ Msg("system", <<NoStatusSentinel, Separator>>) \in Range(request.messages)


\* C20: the step in which a cleanup hook raises still invokes, once each,
\* the cleanup hook of every enabled tool that has one, and leaves the
\* event list, and so the terminal event, as it was.
C20_RaisingHookIsolated ==
  [][cleanupFailed' # cleanupFailed
       => /\ \A t \in ToolIds :
               cleanupCalls'[t] = cleanupCalls[t] + (IF CleanupDue(t) THEN 1 ELSE 0)
          /\ events' = events
          /\ pc' = "closed"]_vars

C20_Witness ==
  /\ pc = "closed"
  /\ cleanupFailed = {"dice.roll_dice"}
  /\ cleanupCalls["guidance.check_guidance"] = 1
  /\ Last(events).type = "complete"


\* The handler under way has yielded system chunks only, and its call completes.
OnlySystemChunks ==
  /\ pc = "executing"
  /\ exec.system_chunks # <<>>
  /\ exec.context_chunks = <<>>
  /\ exec.streamed_accumulator = <<>>
SystemChunkKept ==
  (pc = "executing" /\ pc' = "executing" /\ Head(exec.script).kind = "system")
    => exec'.system_chunks = Append(exec.system_chunks, Head(exec.script).text)

CallCompletes ==
  stream.ended # "tool_call_complete" /\ stream'.ended = "tool_call_complete"
UsageEntry(tool_call_name) == IF tool_call_name = NoName THEN "" ELSE tool_call_name

\* C21: the usage list starts empty; the step that completes a tool call
\* appends that call's function name as one entry at the end, and every
\* other step leaves the list as it is.
C21_UsageListIsCompletedCalls ==
  /\ [](pc = "created" => tools_used = <<>>)
  /\ [][IF CallCompletes
        THEN tools_used' = Append(tools_used, UsageEntry(stream'.tool_call_name))
        ELSE tools_used' = tools_used]_vars

C21_Witness ==
  /\ pc = "closed"
  /\ tools_used = <<"roll_dice", "roll_dice">>
  /\ handlerCalls["dice.roll_dice"] = 2


\* d is what the consumer gets for the event e of inference_loop.
Corresponds(e, d) ==
  IF e.type = "complete"
  THEN d.type \in {"message_complete", "error"}
  ELSE /\ d.type = e.type
       /\ d.content = IF e.type \in {"system_complete", "context_complete"}
                      THEN replace_message_placeholders(e.content) ELSE e.content

\* C22: the events that reached the consumer are, one for one and in the
\* same order, the events generated so far; a run that ended has delivered
\* all of them; and neither list ever changes except by growing at its end.
C22_EventsDeliveredInGenerationOrder ==
  /\ [](/\ Len(delivered) = consumed
        /\ consumed <= Len(events)
        /\ \A i \in 1..Len(delivered) : Corresponds(events[i], delivered[i])
        /\ pc = "closed" => consumed = Len(events))
  /\ [][IsPrefix(events, events') /\ IsPrefix(delivered, delivered')]_vars

C22_Witness ==
  /\ pc = "closed"
  /\ Len(delivered) = 5
  /\ delivered[2] = Event("system_chunk", <<"{{char}}">>)
  /\ delivered[3] = Event("system_chunk", <<"thinks">>)
  /\ delivered[4] = Event("system_complete", <<"Assistant", "thinks">>)
  /\ delivered[5].type = "message_complete"


\* What a run transmits, given its own history, usage list and callbacks.
RequestOf(messages, used, it) ==
  LET prepared == _prepare_loop_iteration(messages, used, tools_limit, it.report, it.cond)
  IN _prepare_api_request(prepared.messages_for_api, prepared.available_tools)

InterruptedStreamEnds ==
  /\ pc = "streaming"
  /\ stream.tool_call_detected /\ stream.streaming_interrupted
  /\ stream'.ended = "streaming_complete"

\* C24: when a stream ends with an interrupted tool call, no handler has
\* run, the history and the usage list are unchanged, and the loop stops:
\* the run ends with complete instead of issuing another request.
C24_InterruptedCallEndsRun ==
  [][InterruptedStreamEnds
       => /\ handlerCalls' = handlerCalls
          /\ base_messages' = base_messages
          /\ tools_used' = tools_used
          /\ pc' = "yielded_complete"
          /\ Last(events').type = "complete"]_vars


\* C25: a run whose streams all end, whose handlers all return and whose
\* model asks only for offered tools eventually emits complete or error
\* (after which no request is issued).
C25_RunTerminates == <>(pc \in {"yielded_complete", "yielded_error"})


\* C26: a step that executes a tool's handler for a tool call happens only
\* while that tool's name is in the tools list of the request in flight.
C26_HandlerOnlyIfOffered ==
  [][\A t \in ToolIds :
       handlerCalls'[t] > handlerCalls[t] => ToolDef[t].name \in Range(request.tools)]_vars


\* A request is in flight in an iteration that offers tools.
ToolsOfferedIteration == pc = "streaming" /\ NumToolsUsed(tools_used) < tools_limit
\* The fixed content signature of an earlier prompt or status message.
HasSignature(m) ==
  m.role = "system" /\ Range(m.content) \cap {ToolPromptHeader, StatusOpen} # {}
\* The copy of a stored turn that is transmitted.
SentCopy(m) ==
  IF m.content = None \/ m.content = <<>> THEN m
  ELSE [m EXCEPT !.content = replace_message_placeholders(@)]
StrippedHistory ==
  LET kept == SelectSeq(base_messages, LAMBDA m : ~HasSignature(m))
  IN [i \in DOMAIN kept |-> SentCopy(kept[i])]
NumStatusBlocks(s) == Cardinality({i \in DOMAIN s : IsStatusBlock(s[i])})
NumToolPrompts(s) == Cardinality({i \in DOMAIN s : IsToolPrompt(s[i])})

\* C27 (as stated): in an iteration that offers tools the transmitted list
\* is the status block, then the tool prompt, then the stripped history.
C27_StatusThenPromptThenHistory ==
  ToolsOfferedIteration
    => /\ Len(request.messages) >= 2
       /\ IsStatusBlock(request.messages[1])
       /\ IsToolPrompt(request.messages[2])
       /\ SubSeq(request.messages, 3, Len(request.messages)) = StrippedHistory
       /\ NumStatusBlocks(request.messages) = 1
       /\ NumToolPrompts(request.messages) <= 1

\* C27 (amended): the transmitted list is the tool prompt, then the status
\* block, then the stripped history; it holds one status block and one
\* tool prompt however many iterations have run.
C27_PromptThenStatusThenHistory ==
  ToolsOfferedIteration
    => /\ Len(request.messages) >= 2
       /\ IsToolPrompt(request.messages[1]) /\ ~IsStatusBlock(request.messages[1])
       /\ IsStatusBlock(request.messages[2]) /\ ~IsToolPrompt(request.messages[2])
       /\ SubSeq(request.messages, 3, Len(request.messages)) = StrippedHistory
       /\ NumStatusBlocks(request.messages) = 1
       /\ NumToolPrompts(request.messages) = 1

C27_Witness ==
  /\ ToolsOfferedIteration
  /\ numRequests = 2
  /\ Len(tools_used) = 1
  /\ \E i \in DOMAIN base_messages : HasSignature(base_messages[i])
  /\ Len(request.messages) > 3


\* The handler yields its first system or context chunk while the reply
\* already holds assistant text.
FirstSideChunkAfterText ==
  /\ pc = "executing" /\ pc' = "executing"
  /\ exec.script # <<>>
  /\ Head(exec.script).kind \in {"system", "context"}
  /\ exec.system_chunks = <<>> /\ exec.context_chunks = <<>>
  /\ exec.updated_final_content # <<>>
  /\ events' # events

\* C28: that step first emits an assistant_complete event carrying the
\* accumulated text and only then the system_chunk or context_chunk event.
C28_AssistantFlushedBeforeSideChunk ==
  [][FirstSideChunkAfterText
       => events' = events \o
            <<Event("assistant_complete", exec.updated_final_content),
              Event(IF Head(exec.script).kind = "system"
                    THEN "system_chunk" ELSE "context_chunk",
                    Head(exec.script).text)>>]_vars


\* The concatenated texts of the events of one type at the end of evs.
RECURSIVE TrailingRun(_, _)
TrailingRun(evs, type) ==
  IF evs = <<>> \/ Last(evs).type # type THEN <<>>
  ELSE TrailingRun(SubSeq(evs, 1, Len(evs) - 1), type) \o Last(evs).content
CompleteOf(chunk_type) ==
  IF chunk_type = "system_chunk" THEN "system_complete" ELSE "context_complete"
\* A run of chunk_type events ends: the next event is of another type.
SideRunEnds(chunk_type) ==
  /\ pc = "executing"
  /\ Last(events).type = chunk_type
  /\ events' # events
  /\ events'[Len(events) + 1].type # chunk_type

\* C29: when a run of system (context) chunks ends, at a chunk of another
\* kind or at the end of the handler, the next event is the
\* system_complete (context_complete) carrying that run's concatenated
\* text, with or without its placeholders replaced.
C29_EachRunFlushedWhenItEnds ==
  [][\A chunk_type \in {"system_chunk", "context_chunk"} :
       SideRunEnds(chunk_type)
         => /\ events'[Len(events) + 1].type = CompleteOf(chunk_type)
            /\ events'[Len(events) + 1].content \in
                 {TrailingRun(events, chunk_type),
                  replace_message_placeholders(TrailingRun(events, chunk_type))}]_vars


\* A tool that reaches the condition check of the filter: enabled, not an
\* auto tool, callable, and not a one_time tool already used.
ReachesCondition(t) ==
  /\ t \in EnabledTools
  /\ ~ToolDef[t].auto_tool
  /\ ToolDef[t].function # "none"
  /\ ~(ToolDef[t].one_time /\ ToolDef[t].name \in Range(tools_used))
ConditionFailed(t) == ToolDef[t].condition /\ iteration.cond[t] \in {"false", "raise"}

\* C30: in a request of an iteration that offers tools, a tool whose
\* condition returned false or raised in this iteration is not in the
\* callable tool list, every other tool that reaches the condition check
\* and does not fail it is in the list, whatever the outcomes of earlier
\* iterations were, and a failed condition leaves no error event.
C30_FailedConditionLeavesToolOut ==
  (ToolsOfferedIteration /\ iteration # NoIteration)
    => /\ \A t \in ToolIds :
            ToolDef[t].name \in Range(request.tools)
              <=> (ReachesCondition(t) /\ ~ConditionFailed(t))
       /\ (\E t \in ToolIds : ReachesCondition(t) /\ ConditionFailed(t))
            => ~HasEvent("error")
\* think was offered and called in the first iteration; in the second its
\* condition raises and the tools around it are still offered.
C30_Witness ==
  /\ ToolsOfferedIteration /\ numRequests = 2
  /\ tools_used = <<"think">>
  /\ iteration.cond["thinking.think"] = "raise"
  /\ request.tools = <<"roll_dice", "recall">>


\* C31: the handler of every enabled auto tool has been invoked by
\* run_auto_tools_and_status once per request prepared so far, and never
\* as the result of a tool call.
C31_AutoToolNeverRunByToolCall ==
  \A t \in AutoInvoked(get_enabled_tools) :
    /\ autoRuns[t] = numRequests
    /\ handlerCalls[t] = 0


\* The stream in flight delivers its next content delta.
ContentDeltaArrives == pc = "streaming" /\ contentDeltas' = contentDeltas + 1

\* C32: a content delta that arrives after a tool-call delta of the same
\* stream adds no event and leaves the accumulated reply as it is; a
\* content delta that arrives before any tool-call delta is appended to the
\* accumulated reply and emitted as a chunk event in the same step.
C32_ContentSuppressedAfterToolCallDelta ==
  [][ContentDeltaArrives
       => IF stream.tool_call_detected
          THEN /\ events' = events
               /\ stream'.updated_final_content = stream.updated_final_content
          ELSE /\ events' = Append(events, Event("chunk", ContentDelta(contentDeltas')))
               /\ stream'.updated_final_content
                    = stream.updated_final_content \o ContentDelta(contentDeltas')]_vars
\* A content delta was delivered after a tool-call delta and nothing of it
\* was emitted or accumulated.
C32_Witness ==
  /\ pc = "streaming" /\ stream.tool_call_detected
  /\ contentDeltas = 1
  /\ ~HasEvent("chunk")
  /\ stream.updated_final_content = <<>>


\* A request is prepared and handed to the transport.
RequestPrepared == pc = "prepare" /\ numRequests' = numRequests + 1

\* C33: the step that prepares a request leaves the stored history as it
\* was: the same messages, each with the same role and content.
C33_StoredHistoryKeptByPreparation ==
  [][RequestPrepared
       => /\ Len(base_messages') = Len(base_messages)
          /\ \A i \in DOMAIN base_messages :
               /\ base_messages'[i].role = base_messages[i].role
               /\ base_messages'[i].content = base_messages[i].content]_vars
\* A second request is in flight whose transmitted copy of the user turn
\* has the name in place of the placeholder the stored turn still holds.
C33_Witness ==
  /\ pc = "streaming" /\ numRequests = 2
  /\ \E i \in DOMAIN base_messages : base_messages[i] = Msg("user", <<"{{user}}">>)
  /\ \E j \in DOMAIN request.messages : request.messages[j] = Msg("user", <<"User">>)
  /\ \A j \in DOMAIN request.messages : request.messages[j] # Msg("user", <<"{{user}}">>)


TerminalTypes == {"complete", "error"}

\* C34: the events of a run hold at most one complete or error event, and
\* if they hold one it is the last event.
C34_OneTerminalEventAndLast ==
  /\ CountEvents("complete") + CountEvents("error") <= 1
  /\ \A i \in DOMAIN events : events[i].type \in TerminalTypes => i = Len(events)

\* The transport failed in the second iteration, after content was
\* streamed: the error event is the only terminal event and the last one.
C34_Witness ==
  /\ pc = "yielded_error" /\ raised = "transport" /\ numRequests = 2
  /\ HasEvent("chunk")
  /\ Last(events).type = "error"


\* C35: a step during which the run is in progress, before and after,
\* invokes no tool's cleanup hook, whatever a second run over the same
\* registry does in that step.
C35_NoCleanupWhileRunInProgress ==
  [][(Running /\ Running') => cleanupCalls' = cleanupCalls]_vars


\* C36: no two attachments of the conversation have the same
\* sequence_order.
C36_SequenceOrdersDistinct ==
  \A i, j \in DOMAIN db.attachments :
    i # j => db.attachments[i].sequence_order # db.attachments[j].sequence_order


\* C37: when no toggle call is under way, a registered tool id is in the
\* persisted enabled_tools exactly when its registry entry is enabled.
C37_PersistedAgreesWithRegistry ==
  (\A k \in Togglers : togglers[k].pc = "idle")
    => \A t \in registry : t \in kv.enabled_tools <=> enabledFlags[t]


\* C38: when no push call is under way, the stored list holds the value
\* of every push that has returned.
C38_NoPushLost ==
  (\A k \in Pushers : pushers[k].pc = "idle")
    => \A k \in Pushers : Range(pushers[k].returned) \subseteq Range(kv.list)


\* C39: a client id is in a topic's subscriber set exactly when the client
\* is connected and the topic is in its connection's subscription set,
\* and no topic has an empty subscriber set.
C39_TopicSetsMirrorConnections ==
  /\ \A t \in Topics, c \in ClientIds :
       (t \in DOMAIN subscriptions /\ c \in subscriptions[t])
         <=> (c \in DOMAIN connections /\ t \in connections[c])
  /\ \A t \in DOMAIN subscriptions : subscriptions[t] # {}


\* C40: whenever the run is about to issue a request after an earlier one,
\* the earlier request's stream was consumed to its end or to the finish of
\* its tool call, and the handler that call started has nothing left to
\* yield; a request is issued from no other position of the run.
C40_OneRequestInFlight ==
  /\ (Running /\ pc = "prepare" /\ numRequests > 0)
       => /\ stream.ended \in {"streaming_complete", "tool_call_complete"}
          /\ exec.script = <<>>
  /\ (Running /\ pc \in {"streaming", "executing"}) => stream.ended = "none"
\* The first request's tool call ran a handler that yielded its chunks and
\* returned; the run is about to issue its second request.
C40_Witness ==
  /\ Running /\ pc = "prepare" /\ numRequests = 1
  /\ stream.ended = "tool_call_complete"
  /\ CountEvents("system_chunk") = 2
  /\ handlerCalls["thinking.think"] = 1

====
